---- MODULE Spec2Model ----
(***************************************************************************)
(* Model of transcript_to_audio: one convert_to_speech call of             *)
(* TextToSpeech (text_to_speech.py) with each of the registered providers  *)
(* (tts/factory.py): parsing into SpeakerSegments, per-provider            *)
(* generate_audio, temporary files, _merge_audio_files, export and         *)
(* transcript write, and the TemporaryDirectory clean-up.                  *)
(*                                                                         *)
(* Representation.                                                         *)
(*  - an Optional value is a sequence: <<>> is None, <<v>> is v;           *)
(*    an Optional[int] is -1 for None.                                     *)
(*  - an audio clip (pydub AudioSegment, and the bytes that encode it) is  *)
(*    a sequence of pieces [seg, part, lead, dur, trail, amp]: a stretch   *)
(*    of speech of dur milliseconds with lead ms of silence before it and  *)
(*    trail ms after it, amp the loudness as a fraction <<n, d>> in lowest *)
(*    terms.  All pieces of one generated clip have the same loudness; the *)
(*    RMS of a clip is represented by the loudness of its speech.          *)
(*  - a gain in dB, 20*log10(r), is represented by its ratio r as a        *)
(*    fraction; 0 dB is <<1, 1>>.                                          *)
(*  - a path is a tuple <<dir, generated_id, kind, idx, speaker>>.         *)
(***************************************************************************)
EXTENDS Integers, Sequences, FiniteSets, TLC

\* ------------------------------------------------------------------ bounds
\* longest transcript (number of person turns) that is explored
MaxSegs == 2

\* ------------------------------------------------------- program constants
\* elevenlabs.py: max_repeats of the generation loop
max_repeats_mutant == 3 + 1

max_repeats == 3

history_max_repeats_mutant == 3 + 1

\* elevenlabs.py: max_repeats of the history loop
history_max_repeats == 3

\* elevenlabs.py: history.get_all(page_size=4)
page_size == 4

\* ------------------------------------------------------------ input alphabet
\* factory.py: TTSProviderFactory._providers
Providers == {"edge", "elevenlabs", "gemini", "geminimulti", "openai", "azureopenai"}

SpeakerIds == {1, 2}

\* the text of a turn; two turns with the same text and emote give ElevenLabs
\* the same request text, two with different emotes give it different ones
Texts == {"a"}

\* parameters.get("emote"): <<>> when the tag has no emote attribute
Emotes == {<<>>, <<"e">>}

\* what the configured voice of a speaker is for ElevenLabs: a voice id
\* (is_voice_id), the name of a voice of voices.get_all, or neither
VoiceKinds == {"id", "name", "unknown"}

\* the clips a vendor answers with: the durations of the pieces, the silence
\* (ms) between two pieces and the RMS
VendorClips ==
  { [durs |-> <<1000>>, gap |-> 0, rms |-> 0],
    [durs |-> <<700>>, gap |-> 0, rms |-> 100],
    [durs |-> <<400, 300>>, gap |-> 2000, rms |-> 300] }

None == <<>>

Some(v) == <<v>>

\* ------------------------------------------------------------------- clips
RECURSIVE GCD(_, _)
GCD(a, b) == IF b = 0 THEN a ELSE GCD(b, a % b)

\* fraction n/d in lowest terms (d > 0)
Frac(n, d) == IF n = 0 THEN <<0, 1>> ELSE <<n \div GCD(n, d), d \div GCD(n, d)>>

FracMul(x, y) == Frac(x[1] * y[1], x[2] * y[2])

\* the audio a vendor returns for segment i when it answers with vc
VendorAudio(i, vc) ==
  [k \in 1..Len(vc.durs) |->
     [seg |-> i, part |-> k, lead |-> IF k = 1 THEN 0 ELSE vc.gap,
      dur |-> vc.durs[k], trail |-> 0, amp |-> Frac(vc.rms, 1)]]

RECURSIVE ClipLen(_)
\* AudioSegment.__len__: duration in milliseconds
ClipLen(clip) ==
  IF clip = <<>> THEN 0
  ELSE clip[1].lead + clip[1].dur + clip[1].trail + ClipLen(Tail(clip))

\* AudioSegment.rms
Rms(clip) == IF clip = <<>> THEN <<0, 1>> ELSE clip[1].amp

\* AudioSegment.apply_gain, the gain given as its ratio
ApplyGain(clip, gain) ==
  [k \in 1..Len(clip) |-> [clip[k] EXCEPT !.amp = FracMul(clip[k].amp, gain)]]

\* the silence between piece k and piece k + 1 of a clip
Gap(clip, k) == clip[k].trail + clip[k + 1].lead

\* pydub split_on_silence: a chunk reaches keep_silence ms into the silence
\* on each side; two chunks that would overlap meet at the midpoint
KeptBefore(gap, keep_silence) ==
  IF 2 * keep_silence > gap THEN gap \div 2 ELSE keep_silence

KeptAfter(gap, keep_silence) ==
  IF 2 * keep_silence > gap THEN gap - (gap \div 2) ELSE keep_silence

\* pieces a..b of the clip as one chunk, with the silence kept at its cuts
Chunk(clip, a, b, keep_silence) ==
  [k \in 1..(b - a + 1) |->
     LET p == clip[a + k - 1]
     IN  [p EXCEPT !.lead  = IF k = 1 /\ a > 1
                               THEN KeptAfter(Gap(clip, a - 1), keep_silence)
                               ELSE p.lead,
                   !.trail = IF a + k - 1 = b /\ b < Len(clip)
                               THEN KeptBefore(Gap(clip, b), keep_silence)
                               ELSE p.trail]]

RECURSIVE ChunksFrom(_, _, _, _)
\* the chunks from piece a on, the clip being cut after every piece of cuts
ChunksFrom(clip, cuts, keep_silence, a) ==
  IF a > Len(clip) THEN <<>>
  ELSE LET later == {k \in cuts : k >= a}
           b == IF later = {} THEN Len(clip)
                ELSE CHOOSE k \in later : \A j \in later : k <= j
       IN  <<Chunk(clip, a, b, keep_silence)>>
           \o ChunksFrom(clip, cuts, keep_silence, b + 1)

\* pydub.silence.split_on_silence(audio, min_silence_len, silence_thresh,
\* keep_silence): the clip is cut at every silence of at least min_silence_len
\* ms (the speech of a clip is louder than silence_thresh, its silence is not);
\* an all-silent clip has no chunk.  The clips begin and end with speech.
SplitOnSilence(clip, min_silence_len, silence_thresh, keep_silence) ==
  IF Rms(clip)[1] = 0 THEN <<>>
  ELSE ChunksFrom(clip,
                  {k \in 1..(Len(clip) - 1) : Gap(clip, k) >= min_silence_len},
                  keep_silence, 1)

RECURSIVE ConcatMutant(_)
ConcatMutant(clips) ==
  IF clips = <<>> THEN <<>> ELSE ConcatMutant(Tail(clips)) \o clips[1]

RECURSIVE Concat(_)
\* combined = AudioSegment.empty(); for segment in ...: combined += segment
Concat(clips) ==
  IF clips = <<>> THEN <<>> ELSE clips[1] \o Concat(Tail(clips))

\* ------------------------------------------------------------------- state
VARIABLES
  provider,              \* TextToSpeech.provider, by its registry name
  text,                  \* convert_to_speech(text): the person turns, in document order
  speaker_configs,       \* convert_to_speech(speaker_configs)
  save_to_file,          \* convert_to_speech(save_to_file)
  pc,                    \* position of the call
  temp_dir,              \* the TemporaryDirectory of the call, None before it is made
  dirs,                  \* the directories that exist under temp_audio_dir
  fs,                    \* the files that exist: path -> content
  created_temp,          \* every temporary path the call has created
  generated_id,          \* str(uuid.uuid4()) of _generate_audio_segments, 0 before
  segments,              \* the List[SpeakerSegment] of the call
  audio_file,            \* the joint-audio path (GeminiMulti), None otherwise
  i,                     \* generate_audio: index of the segment being generated
  rep,                   \* ElevenLabs: rep of the current retry loop
  audio_chunks,          \* ElevenLabs: audio_chunks of the current segment
  n_convert,             \* ElevenLabs: text_to_speech.convert calls made for segment i
  n_get_all,             \* ElevenLabs: history.get_all calls made for segment i
  max_bytes,             \* chunk_text(max_bytes)
  max_chars,             \* split_turn_text(max_chars)
  text_chunks,           \* chunk_text, split_turn_text: chunks
  current_chunk,         \* chunk_text, split_turn_text: current_chunk
  prev_len,              \* ElevenLabs: prev_len of the history loop
  previous_request_ids,  \* ElevenLabs: the recorded <<request_id, text>> pairs
  history,               \* ElevenLabs service: the history items, oldest first
  audio_segments,        \* _merge_audio_files: the (segment, clip) tuples
  normalized_segments,   \* _merge_audio_files: the normalized clips
  combined,              \* _merge_audio_files: the combined clip, None before
  new_transcript,        \* convert_to_speech: the tags of the new transcript
  err,                   \* the exception in flight or raised
  gen_called,            \* a vendor audio-generation call has been made
  gen_failed,            \* the generation of some segment ended without audio
  reparsed,              \* the segments parsed from a transcript that to_tag wrote
  tts_config             \* TextToSpeech(tts_config): the settings, and the environment's credential

vars ==
  <<provider, text, speaker_configs, save_to_file, pc, temp_dir, dirs, fs,
    created_temp, generated_id, segments, audio_file, i, rep, audio_chunks,
    n_convert, n_get_all, prev_len, previous_request_ids, history, audio_segments,
    normalized_segments, combined, new_transcript, err, gen_called, gen_failed,
    reparsed, tts_config, max_bytes, max_chars, text_chunks, current_chunk>>

\* variables of the call's inputs
inputs == <<provider, text, speaker_configs, save_to_file, tts_config>>

\* variables of ElevenLabsTTS.generate_audio
el_vars ==
  <<rep, audio_chunks, n_convert, n_get_all, prev_len, previous_request_ids, history>>

\* variables of _merge_audio_files
merge_vars == <<audio_segments, normalized_segments, combined>>

\* variables of GeminiMultiTTS.chunk_text and split_turn_text
chunk_vars == <<max_bytes, max_chars, text_chunks, current_chunk>>

\* variables of the file system
fs_vars == <<temp_dir, dirs, fs, created_temp, generated_id>>

NoError == [stage |-> "none", kind |-> "none", cause |-> "none"]

\* a TTSConfig every provider accepts: api_key, api_base and deployment are
\* given, audio_format and speed (in tenths) are the defaults mp3 and 1.0;
\* env_key tells whether the environment has a credential of the vendor
DefaultTTSConfig ==
  [api_key |-> TRUE, env_key |-> FALSE, api_base |-> TRUE, deployment |-> TRUE,
   audio_format |-> "mp3", speed |-> 10]

\* the providers whose generate_audio returns per-segment audio
PerSegment == Providers \ {"geminimulti"}

\* ------------------------------------------------------------------- paths
\* tempfile.TemporaryDirectory(dir=self.temp_audio_dir): the directory made
NewTempDir == 1

\* str(uuid.uuid4())
NewUuid == 1

\* os.path.join(temp_dir, f"{generated_id}_{idx}_speaker{speaker_id}.{fmt}")
SegmentPath(dir, gid, idx, speaker) == <<dir, gid, "seg", idx, speaker>>

\* os.path.join(temp_dir, f"{generated_id}_full_audio.{fmt}")
JointPath(dir, gid) == <<dir, gid, "full", 0, 0>>

\* edge.py: NamedTemporaryFile(suffix=".mp3", delete=False, dir=temp_audio_dir);
\* directory 0 is the temp-audio root itself
EdgeTempPath(idx) == <<0, 0, "edge", idx, 0>>

\* output_file, and f"{os.path.splitext(output_file)[0]}_transcript.txt";
\* directory -1 is the output directory
OutputFile == <<-1, 0, "audio", 0, 0>>

TranscriptFile == <<-1, 0, "transcript", 0, 0>>

\* open(path, "wb").write(content)
WriteFile(fsys, path, content) ==
  [p \in DOMAIN fsys \cup {path} |-> IF p = path THEN content ELSE fsys[p]]

\* os.remove(path)
RemoveFile(fsys, path) == [p \in DOMAIN fsys \ {path} |-> fsys[p]]

RemoveTreeMutant(fsys, dir) == fsys

\* TemporaryDirectory.__exit__: the directory goes with all files inside
RemoveTree(fsys, dir) == [p \in {q \in DOMAIN fsys : q[1] # dir} |-> fsys[p]]

\* ----------------------------------------------------------------- parsing
\* base.py split_qa: one SpeakerSegment per matched turn, in document order;
\* the voice config is the default config of the speaker id
split_qa(input_text, configs) ==
  [k \in 1..Len(input_text) |->
     [speaker_id   |-> input_text[k].speaker_id,
      parameters   |-> [emote |-> input_text[k].emote],
      text         |-> input_text[k].text,
      voice_config |-> configs[input_text[k].speaker_id],
      audio        |-> None,
      audio_file   |-> None,
      audio_segment |-> None,
      audio_length |-> -1,
      start_time   |-> -1,
      end_time     |-> -1]]

\* schemas.py SpeakerSegment.to_tag
to_tag(s) ==
  [speaker_id |-> s.speaker_id, parameters |-> s.parameters,
   length |-> s.audio_length, start |-> s.start_time, end |-> s.end_time,
   text |-> s.text]

\* the person turns a transcript can consist of
Turns == [speaker_id : SpeakerIds, emote : Emotes, text : Texts]

Transcripts == UNION {[1..n -> Turns] : n \in 0..MaxSegs}

\* schemas.py SpeakerConfig: use_emote defaults to True, emote_pause to "1.5"
\* (tenths of a second in the model), emote_merge_pause to 500
SpeakerConfigs ==
  [SpeakerIds -> [voice : VoiceKinds, language : {"en-US"}, use_emote : {TRUE},
                  emote_pause : {Some(15)}, emote_merge_pause : {Some(500)}]]

Init ==
  /\ provider \in Providers
  /\ text \in Transcripts
  /\ speaker_configs \in SpeakerConfigs
  \* only ElevenLabs looks the voice up; the other adapters pass it on as it is
  /\ provider # "elevenlabs" => \A sp \in SpeakerIds : speaker_configs[sp].voice = "id"
  /\ save_to_file \in BOOLEAN
  /\ pc = "start"
  /\ temp_dir = None
  /\ dirs = {}
  /\ fs = <<>>
  /\ created_temp = {}
  /\ generated_id = 0
  /\ segments = <<>>
  /\ audio_file = None
  /\ i = 0
  /\ rep = 0
  /\ audio_chunks = None
  /\ n_convert = 0
  /\ n_get_all = 0
  /\ max_bytes = 0
  /\ max_chars = 0
  /\ text_chunks = <<>>
  /\ current_chunk = <<>>
  /\ prev_len = 0
  /\ previous_request_ids = <<>>
  /\ history = <<>>
  /\ audio_segments = <<>>
  /\ normalized_segments = <<>>
  /\ combined = None
  /\ new_transcript = None
  /\ err = NoError
  /\ gen_called = FALSE
  /\ gen_failed = FALSE
  /\ reparsed = <<>>
  /\ tts_config = DefaultTTSConfig

\* raise: the exception leaves convert_to_speech through the with block
Raise(stage, kind, cause) ==
  /\ pc' = "raising"
  /\ err' = [stage |-> stage, kind |-> kind, cause |-> cause]

\* ----------------------------------------------------- convert_to_speech
\* with tempfile.TemporaryDirectory(dir=self.temp_audio_dir) as temp_dir
EnterTempDir ==
  /\ pc = "start"
  /\ temp_dir' = Some(NewTempDir)
  /\ dirs' = dirs \cup {NewTempDir}
  /\ pc' = "split_qa"
  /\ UNCHANGED <<inputs, chunk_vars, reparsed, fs, created_temp, generated_id, segments,
                 audio_file, i, el_vars, merge_vars, new_transcript, err, gen_called,
                 gen_failed>>

\* _generate_audio_segments: segments = self.provider.split_qa(...)
SplitQA ==
  /\ pc = "split_qa"
  /\ segments' = split_qa(text, speaker_configs)
  /\ i' = 1
  /\ pc' = "generate"
  /\ UNCHANGED <<inputs, chunk_vars, reparsed, fs_vars, audio_file, el_vars, merge_vars,
                 new_transcript, err, gen_called, gen_failed>>

\* ------------------------------------- generate_audio, one call per segment
\* openai.py, azureopenai.py, gemini.py generate_audio, one turn of the loop:
\* try: segment.audio = <vendor call>  except Exception as e: raise RuntimeError from e
TryGenerate(p) ==
  /\ pc = "generate"
  /\ provider = p
  /\ i <= Len(segments)
  /\ gen_called' = TRUE
  /\ \/ \E vc \in VendorClips :
          /\ segments' = [segments EXCEPT ![i].audio = Some(VendorAudio(i, vc))]
          /\ i' = i + 1
          /\ UNCHANGED <<pc, err, gen_failed>>
     \/ /\ Raise("generation", "RuntimeError", "vendor")
        /\ gen_failed' = TRUE
        /\ UNCHANGED <<segments, i>>
  /\ UNCHANGED <<inputs, chunk_vars, reparsed, fs_vars, audio_file, el_vars, merge_vars,
                 new_transcript>>

OpenAIGenerate == TryGenerate("openai")

AzureOpenAIGenerate == TryGenerate("azureopenai")

GeminiGenerate == TryGenerate("gemini")

\* edge.py _generate: the NamedTemporaryFile(delete=False) in temp_audio_dir
EdgeCreateTemp ==
  /\ pc = "generate"
  /\ provider = "edge"
  /\ i <= Len(segments)
  /\ fs' = WriteFile(fs, EdgeTempPath(i), <<>>)
  /\ created_temp' = created_temp \cup {EdgeTempPath(i)}
  /\ pc' = "edge_save"
  /\ UNCHANGED <<inputs, chunk_vars, reparsed, temp_dir, dirs, generated_id, segments,
                 audio_file, i, el_vars, merge_vars, new_transcript, err, gen_called,
                 gen_failed>>

\* edge.py _generate: try: save, read  finally: os.remove(temp_path); return segment
\* (the return in the finally block discards an exception of communicate.save)
EdgeSave ==
  /\ pc = "edge_save"
  /\ gen_called' = TRUE
  /\ \/ \E vc \in VendorClips :
          /\ segments' = [segments EXCEPT ![i].audio = Some(VendorAudio(i, vc))]
          /\ UNCHANGED gen_failed
     \/ /\ gen_failed' = TRUE
        /\ UNCHANGED segments
  /\ fs' = RemoveFile(fs, EdgeTempPath(i))
  /\ i' = i + 1
  /\ pc' = "generate"
  /\ UNCHANGED <<inputs, chunk_vars, reparsed, temp_dir, dirs, created_temp,
                 generated_id, audio_file, el_vars, merge_vars, new_transcript, err>>

\* ------------------------------------------------ ElevenLabs generate_audio
\* elevenlabs.py: the emote cue is added when use_emote, emote_pause is not
\* None and the segment has an emote parameter
HasCue(s) ==
  /\ s.voice_config.use_emote
  /\ s.voice_config.emote_pause # None
  /\ s.parameters.emote # None

\* str.lower() of the language codes of the model
Lower(language) ==
  CASE language = "en-US" -> "en-us"
    [] language = "FI" -> "fi"
    [] OTHER -> language

\* schemas.py SAID_TRANSLATIONS: per language the three pieces of the
\* narration phrase, said_str[0], said_str[1], said_str[2]
SAID_TRANSLATIONS ==
  [en |-> <<"en0", "en1", "en2">>, fi |-> <<"fi0", "fi1", "fi2">>]

SaidMutant(s, n) == SAID_TRANSLATIONS["en"][n + 1]

\* elevenlabs.py: said_str = SAID_TRANSLATIONS.get(
\*   segment.voice_config.language.lower(), SAID_TRANSLATIONS["en"]);
\* Said(s, n) is said_str[n]
Said(s, n) ==
  LET language == Lower(s.voice_config.language)
      said_str == IF language \in DOMAIN SAID_TRANSLATIONS
                    THEN SAID_TRANSLATIONS[language] ELSE SAID_TRANSLATIONS["en"]
  IN  said_str[n + 1]

\* elevenlabs.py: text = said_str[2] + text + <break time> + said_str[0] + emote
RequestText(s) ==
  IF HasCue(s)
    THEN <<Said(s, 2), s.text, "break", s.voice_config.emote_pause[1], Said(s, 0),
           s.parameters.emote[1]>>
    ELSE <<s.text>>

\* elevenlabs.py previous_text of segment k: None for the first segment, the
\* text of the segment before it when that has the same speaker, else that
\* text with said_str[0] and said_str[1] or, when the segment before it has
\* an emote in use, with said_str[0] and that emote
PreviousText(segs, k) ==
  IF k = 1 THEN None
  ELSE IF segs[k - 1].speaker_id = segs[k].speaker_id THEN <<segs[k - 1].text>>
  ELSE IF ~segs[k - 1].voice_config.use_emote \/ segs[k - 1].parameters.emote = None
    THEN <<segs[k - 1].text, Said(segs[k], 0), Said(segs[k], 1)>>
    ELSE <<segs[k - 1].text, Said(segs[k], 0), segs[k - 1].parameters.emote[1]>>

\* elevenlabs.py next_text of segment k: None for the last segment, the text
\* of the segment after it when that has the same speaker, else that text
\* after said_str[0], said_str[1], said_str[2] or, when segment k has an
\* emote in use, before said_str[2], said_str[0] and the emote of segment k
NextText(segs, k) ==
  IF k = Len(segs) THEN None
  ELSE IF segs[k + 1].speaker_id = segs[k].speaker_id THEN <<segs[k + 1].text>>
  ELSE IF ~segs[k].voice_config.use_emote \/ segs[k].parameters.emote = None
    THEN <<Said(segs[k], 0), Said(segs[k], 1), Said(segs[k], 2), segs[k + 1].text>>
    ELSE <<segs[k + 1].text, Said(segs[k], 2), Said(segs[k], 0), segs[k].parameters.emote[1]>>

\* elevenlabs.py: the voice id of the segment, by is_voice_id or by the name
\* among voices.get_all; raise ValueError when there is none
ELResolveVoice ==
  /\ pc = "generate"
  /\ provider = "elevenlabs"
  /\ i <= Len(segments)
  /\ IF segments[i].voice_config.voice = "unknown"
       THEN /\ Raise("configuration", "VoiceNotFound", "none")
            /\ UNCHANGED <<rep, audio_chunks, n_convert, n_get_all>>
       ELSE /\ pc' = "el_generate"
            /\ rep' = 0
            /\ audio_chunks' = None
            /\ n_convert' = 0
            /\ n_get_all' = 0
            /\ UNCHANGED err
  /\ UNCHANGED <<inputs, chunk_vars, reparsed, fs_vars, segments, audio_file, i,
                 prev_len, previous_request_ids, history, merge_vars, new_transcript,
                 gen_called, gen_failed>>

\* the last n elements of a sequence: s[-n:]
LastN(s, n) == IF Len(s) <= n THEN s ELSE SubSeq(s, Len(s) - n + 1, Len(s))

PrevRequestsMutant(recorded) == [k \in 1..Len(recorded) |-> recorded[k][1]]

\* elevenlabs.py: prev_requests = previous_request_ids[-3:], sent as
\* previous_request_ids=[item[0] for item in prev_requests]
PrevRequests(recorded) ==
  LET prev_requests == LastN(recorded, 3)
  IN  [k \in 1..Len(prev_requests) |-> prev_requests[k][1]]

\* the request id the service gives to its next generation
NextRequestId == Len(history) + 1

\* elevenlabs.py: one turn of  while rep < max_repeats and audio_chunks is None:
\*   try: audio_chunks = text_to_speech.convert(...)  except: sleep; rep += 1
ELConvert ==
  /\ pc = "el_generate"
  /\ rep < max_repeats /\ audio_chunks = None
  /\ gen_called' = TRUE
  /\ n_convert' = n_convert + 1
  /\ \/ \E vc \in VendorClips :
          /\ audio_chunks' = Some(VendorAudio(i, vc))
          /\ history' = Append(history,
                 [request_id |-> NextRequestId,
                  text |-> RequestText(segments[i]),
                  previous_text |-> PreviousText(segments, i),
                  next_text |-> NextText(segments, i),
                  previous_request_ids |-> PrevRequests(previous_request_ids),
                  segment |-> i])
          /\ UNCHANGED rep
     \/ /\ rep' = rep + 1
        /\ UNCHANGED <<audio_chunks, history>>
  /\ UNCHANGED <<inputs, chunk_vars, reparsed, pc, fs_vars, segments, audio_file, i,
                 n_get_all, prev_len, previous_request_ids, merge_vars, new_transcript,
                 err, gen_failed>>

ELAfterConvertMutant ==
  /\ pc = "el_generate"
  /\ ~(rep < max_repeats /\ audio_chunks = None)
  /\ IF audio_chunks = None
       THEN /\ Raise("generation", "ValueError", "vendor")
            /\ gen_failed' = TRUE
            /\ UNCHANGED <<segments, prev_len, rep>>
       ELSE /\ segments' = [segments EXCEPT ![i].audio = audio_chunks,
                                           ![i].parameters = [emote |-> None]]
            /\ prev_len' = Len(previous_request_ids)
            /\ rep' = 0
            /\ pc' = "el_history"
            /\ UNCHANGED <<err, gen_failed>>
  /\ UNCHANGED <<inputs, chunk_vars, reparsed, fs_vars, audio_file, i, audio_chunks,
                 n_convert, n_get_all, previous_request_ids, history, merge_vars,
                 new_transcript, gen_called>>

\* elevenlabs.py: after the loop: raise ValueError from gen_e when there is no
\* audio, else segment.audio = b"".join(...); prev_len = len(...); rep = 0
ELAfterConvert ==
  /\ pc = "el_generate"
  /\ ~(rep < max_repeats /\ audio_chunks = None)
  /\ IF audio_chunks = None
       THEN /\ Raise("generation", "ValueError", "vendor")
            /\ gen_failed' = TRUE
            /\ UNCHANGED <<segments, prev_len, rep>>
       ELSE /\ segments' = [segments EXCEPT ![i].audio = audio_chunks]
            /\ prev_len' = Len(previous_request_ids)
            /\ rep' = 0
            /\ pc' = "el_history"
            /\ UNCHANGED <<err, gen_failed>>
  /\ UNCHANGED <<inputs, chunk_vars, reparsed, fs_vars, audio_file, i, audio_chunks,
                 n_convert, n_get_all, previous_request_ids, history, merge_vars,
                 new_transcript, gen_called>>

\* the items of the page that match, newest first: the indices into items
Matches(items, t) == {k \in 1..Len(items) : items[k].text = t}

\* elevenlabs.py: first_match = next((request_id, text) for item in
\* sorted(history, newest first) if item.text == text), None)
FirstMatch(items, t) ==
  IF Matches(items, t) = {} THEN None
  ELSE LET k == CHOOSE m \in Matches(items, t) : \A n \in Matches(items, t) : n <= m
       IN  Some(<<items[k].request_id, items[k].text>>)

\* elevenlabs.py: one turn of  while rep < max_repeats and prev_len == len(...):
\*   history.get_all(page_size=4); append the first match, else sleep; rep += 1.
\* The newest item may not be visible in the listing yet.
ELHistoryLookup ==
  /\ pc = "el_history"
  /\ rep < history_max_repeats /\ prev_len = Len(previous_request_ids)
  /\ n_get_all' = n_get_all + 1
  /\ \E lag \in {0, 1} :
       LET visible == LastN(SubSeq(history, 1, Len(history) - lag), page_size)
           first_match == FirstMatch(visible, RequestText(segments[i]))
       IN  IF first_match # None
             THEN /\ previous_request_ids' = Append(previous_request_ids, first_match[1])
                  /\ UNCHANGED rep
             ELSE /\ rep' = rep + 1
                  /\ UNCHANGED previous_request_ids
  /\ UNCHANGED <<inputs, chunk_vars, reparsed, pc, fs_vars, segments, audio_file, i,
                 audio_chunks, n_convert, prev_len, history, merge_vars, new_transcript,
                 err, gen_called, gen_failed>>

\* elevenlabs.py: the history loop ends, the for loop goes to the next segment;
\* the locals of the finished turn are dead (the next turn assigns them anew)
ELNextSegment ==
  /\ pc = "el_history"
  /\ ~(rep < history_max_repeats /\ prev_len = Len(previous_request_ids))
  /\ i' = i + 1
  /\ rep' = 0
  /\ audio_chunks' = None
  /\ n_convert' = 0
  /\ n_get_all' = 0
  /\ prev_len' = 0
  /\ pc' = "generate"
  /\ UNCHANGED <<inputs, chunk_vars, reparsed, fs_vars, segments, audio_file,
                 previous_request_ids, history, merge_vars, new_transcript, err,
                 gen_called, gen_failed>>

\* generate_audio of a per-segment provider: return segments; its locals end
GenerateReturn ==
  /\ pc = "generate"
  /\ provider \in PerSegment
  /\ i > Len(segments)
  /\ previous_request_ids' = <<>>
  /\ pc' = "save_chunks"
  /\ UNCHANGED <<inputs, chunk_vars, reparsed, fs_vars, segments, audio_file, i, rep,
                 audio_chunks, n_convert, n_get_all, prev_len, history, merge_vars,
                 new_transcript, err, gen_called, gen_failed>>

\* ------------------------------------------------ _generate_audio_segments
\* text_to_speech.py: generated_id = str(uuid.uuid4()); for idx, segment in
\* enumerate(segments): if segment.audio: write it to
\* {generated_id}_{idx}_speaker{speaker_id} and set segment.audio_file
SaveChunks ==
  /\ pc = "save_chunks"
  /\ LET dir == temp_dir[1]
         withAudio == {k \in 1..Len(segments) : segments[k].audio # None}
         path(k) == SegmentPath(dir, NewUuid, k - 1, segments[k].speaker_id)
     IN  /\ generated_id' = NewUuid
         /\ fs' = [p \in DOMAIN fs \cup {path(k) : k \in withAudio} |->
                     IF \E k \in withAudio : p = path(k)
                       THEN segments[CHOOSE k \in withAudio : p = path(k)].audio[1]
                       ELSE fs[p]]
         /\ created_temp' = created_temp \cup {path(k) : k \in withAudio}
         /\ segments' = [k \in 1..Len(segments) |->
                           IF k \in withAudio
                             THEN [segments[k] EXCEPT !.audio_file = Some(path(k))]
                             ELSE segments[k]]
  /\ pc' = "merge"
  /\ UNCHANGED <<inputs, chunk_vars, reparsed, temp_dir, dirs, audio_file, i, el_vars,
                 merge_vars, new_transcript, err, gen_called, gen_failed>>

\* text_to_speech.py: audio = self.provider.generate_joint_audio(segments),
\* written to {generated_id}_full_audio; geminimulti.py raises RuntimeError
\* (without "from e") when synthesize_speech fails
GenerateJointAudio ==
  /\ pc = "generate"
  /\ provider = "geminimulti"
  /\ gen_called' = TRUE
  /\ \/ \E vc \in VendorClips :
          LET path == JointPath(temp_dir[1], NewUuid)
          IN  /\ generated_id' = NewUuid
              /\ fs' = WriteFile(fs, path, VendorAudio(0, vc))
              /\ created_temp' = created_temp \cup {path}
              /\ audio_file' = Some(path)
              /\ pc' = "merge"
              /\ UNCHANGED <<err, gen_failed>>
     \/ /\ Raise("generation", "RuntimeError", "context")
        /\ gen_failed' = TRUE
        /\ UNCHANGED <<generated_id, fs, created_temp, audio_file>>
  /\ UNCHANGED <<inputs, chunk_vars, reparsed, temp_dir, dirs, segments, i, el_vars,
                 merge_vars, new_transcript>>

\* ------------------------------------------------------- _merge_audio_files
\* text_to_speech.py _split_audio_on_silence: trim when use_emote and the
\* segment has an emote parameter
Trims(s) == s.voice_config.use_emote /\ s.parameters.emote # None

\* _split_audio_on_silence: silence_threshold = -40
silence_threshold == 0 - 40

\* float(emote_pause) * 1000, emote_pause being a decimal string that the
\* model holds in tenths of a second ("1.5" is 15)
Millis(emote_pause) == emote_pause * 100

\* min_silence_len = int(round(float(emote_pause) * 1000)) or 2000
min_silence_len(cfg) ==
  IF Millis(cfg.emote_pause[1]) = 0 THEN 2000 ELSE Millis(cfg.emote_pause[1])

\* keep_silence = emote_merge_pause or 500
keep_silence(cfg) ==
  IF cfg.emote_merge_pause = None \/ cfg.emote_merge_pause[1] = 0
    THEN 500 ELSE cfg.emote_merge_pause[1]

\* float(None) raises TypeError: min_silence_len of a segment that is
\* trimmed and whose emote_pause is None
SplitRaises(s) == Trims(s) /\ s.voice_config.emote_pause = None

split_audio_on_silence_mutant(audio, s) ==
  IF Trims(s)
    THEN LET chunks == SplitOnSilence(audio, min_silence_len(s.voice_config),
                                      silence_threshold, keep_silence(s.voice_config))
         IN  IF Len(chunks) > 1
               THEN Concat(SubSeq(chunks, 2, Len(chunks)))
               ELSE audio
    ELSE audio

\* _split_audio_on_silence: with more than one chunk, sum(chunks[:-1])
split_audio_on_silence(audio, s) ==
  IF Trims(s)
    THEN LET chunks == SplitOnSilence(audio, min_silence_len(s.voice_config),
                                      silence_threshold, keep_silence(s.voice_config))
         IN  IF Len(chunks) > 1
               THEN Concat(SubSeq(chunks, 1, Len(chunks) - 1))
               ELSE audio
    ELSE audio

\* _merge_audio_files: the clips are loaded: the joint file as the only clip,
\* else each segment's audio_file, trimmed by _split_audio_on_silence, which
\* stores the clip on the segment; from_file of a missing path raises, and
\* so does the trimming of a segment whose emote_pause is None
MergeLoad ==
  /\ pc = "merge"
  /\ IF audio_file # None
       THEN /\ audio_segments' = <<[seg |-> 0, clip |-> fs[audio_file[1]]]>>
            /\ pc' = "normalize"
            /\ UNCHANGED <<segments, err>>
       ELSE IF \E k \in 1..Len(segments) :
                    segments[k].audio_file = None \/ SplitRaises(segments[k])
         THEN /\ Raise("merge", "TypeError", "none")
              /\ UNCHANGED <<segments, audio_segments>>
         ELSE LET clip(k) == split_audio_on_silence(fs[segments[k].audio_file[1]],
                                                    segments[k])
              IN  /\ segments' = [k \in 1..Len(segments) |->
                                    [segments[k] EXCEPT !.audio_segment = Some(clip(k))]]
                  /\ audio_segments' = [k \in 1..Len(segments) |->
                                          [seg |-> k, clip |-> clip(k)]]
                  /\ pc' = "normalize"
                  /\ UNCHANGED err
  /\ UNCHANGED <<inputs, chunk_vars, reparsed, fs_vars, audio_file, i, el_vars,
                 normalized_segments, combined, new_transcript, gen_called, gen_failed>>

RECURSIVE SumRms(_)
\* sum(loudness_levels), the levels being whole numbers
SumRms(tuples) ==
  IF tuples = <<>> THEN 0 ELSE Rms(tuples[1].clip)[1] + SumRms(Tail(tuples))

\* target_loudness = sum(loudness_levels) / len(loudness_levels)
TargetLoudness(tuples) == Frac(SumRms(tuples), Len(tuples))

GainMutant(target, loudness) == Frac(target[2] * loudness[1], target[1] * loudness[2])

\* gain = 20 * math.log10(target_loudness / segment_loudness), as its ratio
Gain(target, loudness) == Frac(target[1] * loudness[2], target[2] * loudness[1])

MergeNormalizeMutant ==
  /\ pc = "normalize"
  /\ IF \E k \in 1..Len(audio_segments) : Rms(audio_segments[k].clip)[1] = 0
       THEN /\ Raise("merge", "ZeroDivisionError", "none")
            /\ UNCHANGED <<segments, normalized_segments>>
       ELSE LET target == TargetLoudness(audio_segments)
                norm(k) == ApplyGain(audio_segments[k].clip,
                                     Gain(target, Rms(audio_segments[k].clip)))
                owner(n) == {k \in 1..Len(audio_segments) : audio_segments[k].seg = n}
            IN  /\ normalized_segments' = [k \in 1..Len(audio_segments) |-> norm(k)]
                /\ segments' = [n \in 1..Len(segments) |->
                                  IF owner(n) # {}
                                    THEN [segments[n] EXCEPT !.audio_segment =
                                            Some(norm(CHOOSE k \in owner(n) : TRUE))]
                                    ELSE segments[n]]
                /\ pc' = "combine"
                /\ UNCHANGED err
  /\ UNCHANGED <<inputs, chunk_vars, reparsed, fs_vars, audio_file, i, el_vars,
                 audio_segments, combined, new_transcript, gen_called, gen_failed>>

\* _normalize_audio_segments: every clip gets the gain to the mean RMS and is
\* stored on its segment; ZeroDivisionError for no clip or a clip of RMS 0
MergeNormalize ==
  /\ pc = "normalize"
  /\ IF \/ Len(audio_segments) = 0
        \/ \E k \in 1..Len(audio_segments) : Rms(audio_segments[k].clip)[1] = 0
       THEN /\ Raise("merge", "ZeroDivisionError", "none")
            /\ UNCHANGED <<segments, normalized_segments>>
       ELSE LET target == TargetLoudness(audio_segments)
                norm(k) == ApplyGain(audio_segments[k].clip,
                                     Gain(target, Rms(audio_segments[k].clip)))
                owner(n) == {k \in 1..Len(audio_segments) : audio_segments[k].seg = n}
            IN  /\ normalized_segments' = [k \in 1..Len(audio_segments) |-> norm(k)]
                /\ segments' = [n \in 1..Len(segments) |->
                                  IF owner(n) # {}
                                    THEN [segments[n] EXCEPT !.audio_segment =
                                            Some(norm(CHOOSE k \in owner(n) : TRUE))]
                                    ELSE segments[n]]
                /\ pc' = "combine"
                /\ UNCHANGED err
  /\ UNCHANGED <<inputs, chunk_vars, reparsed, fs_vars, audio_file, i, el_vars,
                 audio_segments, combined, new_transcript, gen_called, gen_failed>>

RECURSIVE TimingLoopMutant(_, _, _)
TimingLoopMutant(segs, k, cur_time) ==
  IF k > Len(segs) THEN <<>>
  ELSE LET length == ClipLen(segs[k].audio_segment[1])
       IN  <<[segs[k] EXCEPT !.audio_length = length,
                             !.start_time = cur_time + length,
                             !.end_time = cur_time + length]>>
           \o TimingLoopMutant(segs, k + 1, cur_time + length)

RECURSIVE TimingLoop(_, _, _)
\* cur_time = 0; for segment in audio_files[0]: audio_length = len(audio_segment);
\* start_time = cur_time; cur_time += audio_length; end_time = cur_time
TimingLoop(segs, k, cur_time) ==
  IF k > Len(segs) THEN <<>>
  ELSE LET length == ClipLen(segs[k].audio_segment[1])
       IN  <<[segs[k] EXCEPT !.audio_length = length,
                             !.start_time = cur_time,
                             !.end_time = cur_time + length]>>
           \o TimingLoop(segs, k + 1, cur_time + length)

\* _merge_audio_files: combined += segment for every normalized clip; then
\* audio_length, start_time, end_time of every segment from cur_time;
\* segment.audio_segment.__len__() raises when audio_segment is None
MergeCombine ==
  /\ pc = "combine"
  /\ IF \E k \in 1..Len(segments) : segments[k].audio_segment = None
       THEN /\ Raise("merge", "AttributeError", "none")
            /\ UNCHANGED <<segments, combined>>
       ELSE /\ combined' = Some(Concat(normalized_segments))
            /\ segments' = TimingLoop(segments, 1, 0)
            /\ pc' = IF save_to_file THEN "export" ELSE "to_tag"
            /\ UNCHANGED err
  /\ UNCHANGED <<inputs, chunk_vars, reparsed, fs_vars, audio_file, i, el_vars,
                 audio_segments, normalized_segments, new_transcript, gen_called,
                 gen_failed>>

\* _merge_audio_files: if save_to_file: os.makedirs; combined.export(output_file).
\* A failing makedirs or export is taken to leave no file.
ExportCombined ==
  /\ pc = "export"
  /\ \/ /\ fs' = WriteFile(fs, OutputFile, combined[1])
        /\ pc' = "to_tag"
        /\ UNCHANGED err
     \/ /\ Raise("export", "OSError", "none")
        /\ UNCHANGED fs
  /\ UNCHANGED <<inputs, chunk_vars, reparsed, temp_dir, dirs, created_temp,
                 generated_id, segments, audio_file, i, el_vars, merge_vars,
                 new_transcript, gen_called, gen_failed>>

\* convert_to_speech: new_transcript = "\n".join(segment.to_tag() ...)
BuildTranscript ==
  /\ pc = "to_tag"
  /\ new_transcript' = Some([k \in 1..Len(segments) |-> to_tag(segments[k])])
  /\ pc' = IF save_to_file THEN "write_transcript" ELSE "return"
  /\ UNCHANGED <<inputs, chunk_vars, reparsed, fs_vars, segments, audio_file, i,
                 el_vars, merge_vars, err, gen_called, gen_failed>>

\* convert_to_speech: with open(transcript_file, "w") as f: f.write(new_transcript).
\* A failing open is taken to leave no file.
WriteTranscript ==
  /\ pc = "write_transcript"
  /\ \/ /\ fs' = WriteFile(fs, TranscriptFile, new_transcript[1])
        /\ pc' = "return"
        /\ UNCHANGED err
     \/ /\ Raise("transcript", "OSError", "none")
        /\ UNCHANGED fs
  /\ UNCHANGED <<inputs, chunk_vars, reparsed, temp_dir, dirs, created_temp,
                 generated_id, segments, audio_file, i, el_vars, merge_vars,
                 new_transcript, gen_called, gen_failed>>

\* convert_to_speech: return (new_transcript, audio) leaves the with block
ConvertReturn ==
  /\ pc = "return"
  /\ fs' = RemoveTree(fs, temp_dir[1])
  /\ dirs' = dirs \ {temp_dir[1]}
  /\ pc' = "returned"
  /\ UNCHANGED <<inputs, chunk_vars, reparsed, temp_dir, created_temp, generated_id,
                 segments, audio_file, i, el_vars, merge_vars, new_transcript, err,
                 gen_called, gen_failed>>

\* convert_to_speech: the exception leaves the with block; except: log; raise
ConvertRaise ==
  /\ pc = "raising"
  /\ fs' = RemoveTree(fs, temp_dir[1])
  /\ dirs' = dirs \ {temp_dir[1]}
  /\ pc' = "raised"
  /\ UNCHANGED <<inputs, chunk_vars, reparsed, temp_dir, created_temp, generated_id,
                 segments, audio_file, i, el_vars, merge_vars, new_transcript, err,
                 gen_called, gen_failed>>

Next ==
  \/ EnterTempDir
  \/ SplitQA
  \/ OpenAIGenerate
  \/ AzureOpenAIGenerate
  \/ GeminiGenerate
  \/ EdgeCreateTemp
  \/ EdgeSave
  \/ ELResolveVoice
  \/ ELConvert
  \/ ELAfterConvert
  \/ ELHistoryLookup
  \/ ELNextSegment
  \/ GenerateReturn
  \/ SaveChunks
  \/ GenerateJointAudio
  \/ MergeLoad
  \/ MergeNormalize
  \/ MergeCombine
  \/ ExportCombined
  \/ BuildTranscript
  \/ WriteTranscript
  \/ ConvertReturn
  \/ ConvertRaise

Spec == Init /\ [][Next]_vars

TypeOK ==
  /\ provider \in Providers
  /\ pc \in {"start", "split_qa", "generate", "edge_save", "el_generate",
             "el_history", "save_chunks", "merge", "normalize", "combine", "export", "to_tag",
             "write_transcript", "return", "raising", "returned", "raised"}
  /\ Len(segments) <= MaxSegs
  /\ rep \in 0..3

\* ------------------------------------- _merge_audio_files, called on its own
\* most segments of one _merge_audio_files call that is explored
MaxClips == 2

\* the clips of the audio files: those of the vendors and one whose silence
\* is shorter than the default min_silence_len
StubClips == VendorClips \cup {[durs |-> <<400, 300>>, gap |-> 1800, rms |-> 200]}

\* schemas.py SpeakerConfig of a segment, its tag's attributes merged in
MergeConfigs ==
  [voice : {"id"}, language : {"en-US"}, use_emote : BOOLEAN,
   emote_pause : {None, Some(0), Some(15)}, emote_merge_pause : {None, Some(0), Some(300)}]

\* one segment of the call: its config, its emote parameter and its clip; the
\* pauses are looked at only when the segment is trimmed
MergeChoices ==
  {c \in [cfg : MergeConfigs, emote : Emotes, vc : StubClips] :
     ~(c.cfg.use_emote /\ c.emote # None) =>
       c.cfg.emote_pause = Some(15) /\ c.cfg.emote_merge_pause = None}

\* the segments _generate_audio_segments hands over: audio and audio_file set
GeneratedSegments(cs) ==
  [k \in 1..Len(cs) |->
     [speaker_id   |-> 2 - (k % 2),
      parameters   |-> [emote |-> cs[k].emote],
      text         |-> "a",
      voice_config |-> cs[k].cfg,
      audio        |-> Some(VendorAudio(k, cs[k].vc)),
      audio_file   |-> Some(SegmentPath(NewTempDir, NewUuid, k - 1, 2 - (k % 2))),
      audio_segment |-> None,
      audio_length |-> -1,
      start_time   |-> -1,
      end_time     |-> -1]]

\* _merge_audio_files(audio_files, output_file, save_to_file=False) with
\* audio_files = (segments, None), every audio_file written
MergeInit ==
  /\ \E cs \in UNION {[1..n -> MergeChoices] : n \in 0..MaxClips} :
       /\ segments = GeneratedSegments(cs)
       /\ text = [k \in 1..Len(cs) |->
                    [speaker_id |-> 2 - (k % 2), emote |-> cs[k].emote, text |-> "a"]]
       /\ fs = [q \in {SegmentPath(NewTempDir, NewUuid, k - 1, 2 - (k % 2)) :
                         k \in 1..Len(cs)} |-> VendorAudio(q[4] + 1, cs[q[4] + 1].vc)]
       /\ created_temp = {SegmentPath(NewTempDir, NewUuid, k - 1, 2 - (k % 2)) :
                            k \in 1..Len(cs)}
       /\ i = Len(cs) + 1
  /\ provider = "openai"
  /\ speaker_configs = [sp \in SpeakerIds |->
                          [voice |-> "id", language |-> "en-US", use_emote |-> TRUE,
                           emote_pause |-> Some(15), emote_merge_pause |-> Some(500)]]
  /\ save_to_file = FALSE
  /\ pc = "merge"
  /\ temp_dir = Some(NewTempDir)
  /\ dirs = {NewTempDir}
  /\ generated_id = NewUuid
  /\ audio_file = None
  /\ rep = 0
  /\ audio_chunks = None
  /\ n_convert = 0
  /\ n_get_all = 0
  /\ max_bytes = 0
  /\ max_chars = 0
  /\ text_chunks = <<>>
  /\ current_chunk = <<>>
  /\ prev_len = 0
  /\ previous_request_ids = <<>>
  /\ history = <<>>
  /\ audio_segments = <<>>
  /\ normalized_segments = <<>>
  /\ combined = None
  /\ new_transcript = None
  /\ err = NoError
  /\ gen_called = TRUE
  /\ gen_failed = FALSE
  /\ reparsed = <<>>
  /\ tts_config = DefaultTTSConfig

MergeNext ==
  \/ MergeLoad
  \/ MergeNormalize
  \/ MergeCombine

MergeSpec == MergeInit /\ [][MergeNext]_vars

\* ------------------------------------------------------------ markup text
\* A text is a sequence of tokens [kind, name, num, attrs]: an opening tag
\* <name attrs> or <personN attrs>, a closing tag </name> or </personN>, or
\* one character (kind "chr", the character in name).  num is the N of a
\* person tag, 0 for other tags; attrs is the sequence of the key="value"
\* pairs of an opening tag, each written with a blank before it.  Names are
\* held in lower case: every pattern of base.py has re.IGNORECASE.
Open(name, num, attrs) == [kind |-> "open", name |-> name, num |-> num, attrs |-> attrs]

Close(name, num) == [kind |-> "close", name |-> name, num |-> num, attrs |-> <<>>]

Chr(c) == [kind |-> "chr", name |-> c, num |-> 0, attrs |-> <<>>]

IsTag(t) == t.kind \in {"open", "close"}

\* a tag that Person\d+ names
IsPersonTag(t) == IsTag(t) /\ t.name = "person" /\ t.num > 0

\* \s
IsSpace(t) == t.kind = "chr" /\ t.name \in {" ", "\n"}

MinOf(S) == CHOOSE x \in S : \A y \in S : x <= y

MaxOf(S) == CHOOSE x \in S : \A y \in S : x >= y

\* base.py: COMMON_SSML_TAGS; openai.py: PROVIDER_SSML_TAGS
COMMON_SSML_TAGS == {"lang", "p", "phoneme", "s", "sub"}

PROVIDER_SSML_TAGS == {"break", "emphasis"}

\* get_supported_tags of the providers: OpenAI returns its own tags only
get_supported_tags(p) ==
  IF p = "openai" THEN PROVIDER_SSML_TAGS ELSE COMMON_SSML_TAGS

\* clean_tss_markup: what </?(?!(tags|Person1|Person2|Person\d+)\b)[^>]+>
\* matches: every opening tag of another name, and every closing tag, of
\* whatever name, because "/?" may match nothing and the lookahead then
\* stands before the "/"
Unsupported(t, supported_tags) ==
  \/ t.kind = "close"
  \/ t.kind = "open" /\ ~IsPersonTag(t) /\ t.name \notin supported_tags

\* cleaned_text = re.sub(pattern, "", input_text)
RemoveUnsupported(toks, supported_tags) ==
  SelectSeq(toks, LAMBDA t : ~Unsupported(t, supported_tags))

RECURSIVE CollapseLines(_)
\* re.sub(r"\n\s*\n", "\n", cleaned_text): from a newline to the last newline
\* of the white space that follows it
CollapseLines(toks) ==
  IF toks = <<>> THEN <<>>
  ELSE IF toks[1] # Chr("\n") THEN <<toks[1]>> \o CollapseLines(Tail(toks))
  ELSE LET white == {j \in 2..Len(toks) : \A k \in 2..j : IsSpace(toks[k])}
           lines == {j \in white : toks[j] = Chr("\n")}
       IN  IF lines = {} THEN <<toks[1]>> \o CollapseLines(Tail(toks))
           ELSE <<Chr("\n")>>
                \o CollapseLines(SubSeq(toks, MaxOf(lines) + 1, Len(toks)))

\* where (.*?)(?=<|$) ends after an opening tag at toks[1]: before the next
\* tag, at the end, or before a newline that ends the text
BodyEnd(toks) ==
  LET stops == {j \in 2..Len(toks) :
                  IsTag(toks[j]) \/ (j = Len(toks) /\ toks[j] = Chr("\n"))}
  IN  IF stops = {} THEN Len(toks) + 1 ELSE MinOf(stops)

RECURSIVE CloseTags(_, _)
\* re.sub(f"<{tag}( [^>]+)?>(.*?)(?=<|$)", f"<{tag}\\1>\\2</{tag}>", ...):
\* a closing tag is put after the body of every opening tag personN with
\* N = n, of every opening person tag when n = 0
CloseTags(toks, n) ==
  IF toks = <<>> THEN <<>>
  ELSE IF toks[1].kind = "open" /\ IsPersonTag(toks[1]) /\ (n = 0 \/ toks[1].num = n)
    THEN <<toks[1]>> \o SubSeq(toks, 2, BodyEnd(toks) - 1)
         \o <<Close("person", toks[1].num)>>
         \o CloseTags(SubSeq(toks, BodyEnd(toks), Len(toks)), n)
    ELSE <<toks[1]>> \o CloseTags(Tail(toks), n)

RECURSIVE LStrip(_)
LStrip(toks) ==
  IF toks # <<>> /\ IsSpace(toks[1]) THEN LStrip(Tail(toks)) ELSE toks

RECURSIVE RStrip(_)
RStrip(toks) ==
  IF toks # <<>> /\ IsSpace(toks[Len(toks)])
    THEN RStrip(SubSeq(toks, 1, Len(toks) - 1)) ELSE toks

\* str.strip()
Strip(toks) == RStrip(LStrip(toks))

\* base.py clean_tss_markup with additional_tags = ["Person1", "Person2"]
clean_tss_markup(input_text, supported_tags) ==
  Strip(CloseTags(CloseTags(CloseTags(
          CollapseLines(RemoveUnsupported(input_text, supported_tags)), 1), 2), 0))

RECURSIVE FindAll(_)
\* re.findall(r"<person(\d+)(.*?)>(.*?)</person\1>", input_text): an opening
\* person tag with the first closing tag of its number after it
FindAll(toks) ==
  IF toks = <<>> THEN <<>>
  ELSE LET closes == {j \in 2..Len(toks) : toks[j] = Close("person", toks[1].num)}
       IN  IF toks[1].kind = "open" /\ IsPersonTag(toks[1]) /\ closes # {}
             THEN <<[speaker_id |-> toks[1].num, params |-> toks[1].attrs,
                     text |-> SubSeq(toks, 2, MinOf(closes) - 1)]>>
                  \o FindAll(SubSeq(toks, MinOf(closes) + 1, Len(toks)))
             ELSE FindAll(Tail(toks))

\* param_dict = dict(re.findall(r'(\w+)="(.*?)"', params)): a later pair of a
\* key replaces an earlier one
ParamDict(params) ==
  [key \in {params[k][1] : k \in DOMAIN params} |->
     params[MaxOf({k \in DOMAIN params : params[k][1] = key})][2]]

\* schemas.py: SpeakerConfig.model_fields.keys()
SchemaFields ==
  {"voice", "language", "pitch", "speaking_rate", "stability", "similarity_boost",
   "style", "use_speaker_boost", "ssml_gender", "use_emote", "emote_pause",
   "emote_merge_pause"}

\* matched_fields = {key: value for key, value in param_dict.items()
\*                   if key in schema_fields}
MatchedFields(param_dict) ==
  [key \in DOMAIN param_dict \cap SchemaFields |-> param_dict[key]]

\* schemas.py: SpeakerConfig(), what model_validate({}) gives
DefaultSpeakerConfig ==
  [voice |-> "default_voice_1", language |-> "en-US", use_emote |-> TRUE,
   emote_pause |-> Some(15), emote_merge_pause |-> Some(500)]

\* {**default_config, **matched_fields} raises TypeError when default_config
\* is a SpeakerConfig, which is not a mapping: when the speaker has a config
\* and the tag has an attribute that is a SpeakerConfig field
ConfigMergeRaises(turn, configs) ==
  /\ turn.speaker_id \in DOMAIN configs
  /\ DOMAIN MatchedFields(ParamDict(turn.params)) # {}

\* default_config = predefined_configs.get(speaker_id, {}).copy();
\* SpeakerConfig.model_validate({**default_config, **matched_fields}) or
\* SpeakerConfig.model_validate(default_config)
SpeakerConfigOf(turn, configs) ==
  LET matched == MatchedFields(ParamDict(turn.params))
  IN  IF turn.speaker_id \in DOMAIN configs
        THEN configs[turn.speaker_id]
        ELSE [f \in DOMAIN DefaultSpeakerConfig |->
                IF f \in DOMAIN matched THEN matched[f] ELSE DefaultSpeakerConfig[f]]

\* SpeakerSegment(speaker_id, param_dict, text.strip(), speaker_config)
SegmentOf(turn, configs) ==
  [speaker_id   |-> turn.speaker_id,
   parameters   |-> ParamDict(turn.params),
   text         |-> Strip(turn.text),
   voice_config |-> SpeakerConfigOf(turn, configs),
   audio        |-> None,
   audio_file   |-> None,
   audio_segment |-> None,
   audio_length |-> -1,
   start_time   |-> -1,
   end_time     |-> -1]

\* split_qa: the matches of the cleaned text
PersonTurns(input_text, supported_tags) ==
  FindAll(clean_tss_markup(input_text, supported_tags))

\* split_qa raises: the config merge of some turn does
SplitRaisesTypeError(input_text, configs, supported_tags) ==
  LET turns == PersonTurns(input_text, supported_tags)
  IN  \E k \in 1..Len(turns) : ConfigMergeRaises(turns[k], configs)

\* split_qa of a markup text: one SpeakerSegment per match
split_qa_markup(input_text, configs, supported_tags) ==
  LET turns == PersonTurns(input_text, supported_tags)
  IN  [k \in 1..Len(turns) |-> SegmentOf(turns[k], configs)]

\* -------------------------------------------------- split_qa, called on its own
\* most fragments of one text, most segments of one transcript
MaxFrags == 2

\* the pieces the texts are made of: well-formed turns without and with
\* attributes, with blanks around the text, with a supported and with an
\* unsupported tag inside, an unsupported element and plain text outside of
\* turns, opening person tags that are never closed, and a newline
Fragments ==
  { <<Open("person", 1, <<>>), Chr("a"), Close("person", 1)>>,
    <<Open("person", 1, <<<<"emote", "e">>>>), Chr("a"), Close("person", 1)>>,
    <<Open("person", 1, <<<<"voice", "v">>>>), Chr("a"), Close("person", 1)>>,
    <<Open("person", 2, <<>>), Chr(" "), Chr("a"), Chr(" "), Close("person", 2)>>,
    <<Open("person", 3, <<<<"voice", "v">>>>), Chr("a"), Close("person", 3)>>,
    <<Open("person", 1, <<>>), Chr("a"), Open("s", 0, <<>>), Chr("a"),
      Close("s", 0), Chr("a"), Close("person", 1)>>,
    <<Open("person", 2, <<>>), Chr("a"), Open("foo", 0, <<>>), Chr("a"),
      Close("foo", 0), Chr("a"), Close("person", 2)>>,
    <<Open("foo", 0, <<>>), Chr("a"), Close("foo", 0)>>,
    <<Chr("a")>>,
    <<Open("person", 1, <<<<"emote", "e">>>>), Chr("a")>>,
    <<Open("person", 2, <<>>), Chr("a")>>,
    <<Open("person", 2, <<<<"voice", "v">>>>), Chr("a")>>,
    <<Chr("\n")>> }

RECURSIVE Flatten(_)
Flatten(seqs) == IF seqs = <<>> THEN <<>> ELSE seqs[1] \o Flatten(Tail(seqs))

\* the texts split_qa is called with
Markups == {Flatten(fr) : fr \in UNION {[1..n -> Fragments] : n \in 0..MaxFrags}}

\* text_to_speech.py: DEFAULT_SPEAKER_1, DEFAULT_SPEAKER_2, told apart by
\* their voice
DefaultSpeakerConfigs ==
  [sp \in SpeakerIds |->
     [voice |-> IF sp = 1 THEN "id" ELSE "name", language |-> "en-US",
      use_emote |-> TRUE, emote_pause |-> Some(15), emote_merge_pause |-> Some(500)]]

\* no convert_to_speech call is under way
NoCall ==
  /\ save_to_file = FALSE
  /\ temp_dir = None
  /\ dirs = {}
  /\ fs = <<>>
  /\ created_temp = {}
  /\ generated_id = 0
  /\ audio_file = None
  /\ i = 0
  /\ rep = 0
  /\ audio_chunks = None
  /\ n_convert = 0
  /\ n_get_all = 0
  /\ max_bytes = 0
  /\ max_chars = 0
  /\ text_chunks = <<>>
  /\ current_chunk = <<>>
  /\ prev_len = 0
  /\ previous_request_ids = <<>>
  /\ history = <<>>
  /\ audio_segments = <<>>
  /\ normalized_segments = <<>>
  /\ combined = None
  /\ err = NoError
  /\ gen_called = FALSE
  /\ gen_failed = FALSE

\* provider.split_qa(text, speaker_configs, provider.get_supported_tags())
ParseInit ==
  /\ provider \in {"openai", "elevenlabs"}
  /\ text \in Markups
  /\ speaker_configs = DefaultSpeakerConfigs
  /\ pc = "split_qa"
  /\ segments = <<>>
  /\ new_transcript = None
  /\ reparsed = <<>>
  /\ tts_config = DefaultTTSConfig
  /\ NoCall

\* base.py split_qa: the text is cleaned, the turns are matched and one
\* segment is made per match; the config merge of a turn may raise
ParseMarkup ==
  /\ pc = "split_qa"
  /\ IF SplitRaisesTypeError(text, speaker_configs, get_supported_tags(provider))
       THEN /\ Raise("parse", "TypeError", "none")
            /\ UNCHANGED segments
       ELSE /\ segments' = split_qa_markup(text, speaker_configs,
                                           get_supported_tags(provider))
            /\ pc' = "parsed"
            /\ UNCHANGED err
  /\ UNCHANGED <<inputs, chunk_vars, reparsed, fs_vars, audio_file, i, el_vars,
                 merge_vars, new_transcript, gen_called, gen_failed>>

ParseNext == ParseMarkup

ParseSpec == ParseInit /\ [][ParseNext]_vars

\* ------------------------------------------- to_tag and split_qa, in a row
\* the key="value" pairs of a parameter map, a dict, in one order
RECURSIVE Items(_)
Items(d) ==
  IF DOMAIN d = {} THEN <<>>
  ELSE LET key == CHOOSE k \in DOMAIN d : TRUE
       IN  <<<<key, d[key]>>>> \o Items([k \in DOMAIN d \ {key} |-> d[k]])

\* schemas.py SpeakerSegment.to_tag as markup: the parameters, then length,
\* start and end when they are set (-1 is None), the numbers written out by
\* the f-string; the text; the closing tag.  A segment without any of these
\* attributes would get "<personN >", which no text of the model has.
to_tag_markup(s) ==
  LET additional_properties ==
        (IF s.audio_length # -1 THEN <<<<"length", ToString(s.audio_length)>>>> ELSE <<>>)
        \o (IF s.start_time # -1 THEN <<<<"start", ToString(s.start_time)>>>> ELSE <<>>)
        \o (IF s.end_time # -1 THEN <<<<"end", ToString(s.end_time)>>>> ELSE <<>>)
  IN  <<Open("person", s.speaker_id, Items(s.parameters) \o additional_properties)>>
      \o s.text \o <<Close("person", s.speaker_id)>>

RECURSIVE JoinLines(_)
\* "\n".join(tags)
JoinLines(tags) ==
  IF tags = <<>> THEN <<>>
  ELSE IF Len(tags) = 1 THEN tags[1]
  ELSE tags[1] \o <<Chr("\n")>> \o JoinLines(Tail(tags))

\* the parameter maps and the texts of the segments that are written out: no
\* attribute, one that is no SpeakerConfig field, one that is; a plain text
\* and one with the tag <s>, which ElevenLabs supports
TagParameters ==
  {<<>>, [key \in {"emote"} |-> "e"], [key \in {"voice"} |-> "v"]}

TagTexts ==
  {<<Chr("a")>>,
   <<Chr("a"), Open("s", 0, <<>>), Chr("a"), Close("s", 0), Chr("a")>>}

\* segments as _merge_audio_files leaves them, the timing set, every clip
\* 900 ms long: speaker 1 has a config, speaker 3 has none
TimedSegments(choice) ==
  [k \in 1..Len(choice) |->
     [speaker_id   |-> choice[k].speaker_id,
      parameters   |-> choice[k].parameters,
      text         |-> choice[k].text,
      voice_config |-> IF choice[k].speaker_id \in DOMAIN DefaultSpeakerConfigs
                         THEN DefaultSpeakerConfigs[choice[k].speaker_id]
                         ELSE DefaultSpeakerConfig,
      audio        |-> None,
      audio_file   |-> None,
      audio_segment |-> None,
      audio_length |-> 900,
      start_time   |-> (k - 1) * 900,
      end_time     |-> k * 900]]

TagChoices ==
  UNION {[1..n -> [speaker_id : {1, 3}, parameters : TagParameters, text : TagTexts]] :
           n \in 0..MaxSegs}

RoundTripInit ==
  /\ provider \in {"openai", "elevenlabs"}
  /\ text = <<>>
  /\ speaker_configs = DefaultSpeakerConfigs
  /\ \E choice \in TagChoices : segments = TimedSegments(choice)
  /\ pc = "to_tag"
  /\ new_transcript = None
  /\ reparsed = <<>>
  /\ tts_config = DefaultTTSConfig
  /\ NoCall

\* new_transcript = "\n".join([segment.to_tag() for segment in segments])
Serialize ==
  /\ pc = "to_tag"
  /\ new_transcript' =
       Some(JoinLines([k \in 1..Len(segments) |-> to_tag_markup(segments[k])]))
  /\ pc' = "split_qa"
  /\ UNCHANGED <<inputs, chunk_vars, reparsed, fs_vars, segments, audio_file, i,
                 el_vars, merge_vars, err, gen_called, gen_failed>>

\* provider.split_qa(new_transcript, speaker_configs, provider.get_supported_tags())
Reparse ==
  /\ pc = "split_qa"
  /\ new_transcript # None
  /\ IF SplitRaisesTypeError(new_transcript[1], speaker_configs,
                             get_supported_tags(provider))
       THEN /\ Raise("parse", "TypeError", "none")
            /\ UNCHANGED reparsed
       ELSE /\ reparsed' = split_qa_markup(new_transcript[1], speaker_configs,
                                           get_supported_tags(provider))
            /\ pc' = "parsed"
            /\ UNCHANGED err
  /\ UNCHANGED <<inputs, chunk_vars, fs_vars, segments, audio_file, i, el_vars,
                 merge_vars, new_transcript, gen_called, gen_failed>>

RoundTripNext ==
  \/ Serialize
  \/ Reparse

RoundTripSpec == RoundTripInit /\ [][RoundTripNext]_vars

\* ---------------------------------------------- TextToSpeech.__init__
\* the names TextToSpeech is constructed with: those of the registry and one
\* that is not registered
ProviderNames == Providers \cup {"unknown"}

\* the settings a TextToSpeech is constructed with: whether api_key, api_base
\* and deployment are given, whether the environment has a credential of the
\* vendor (openai.api_key from OPENAI_API_KEY, Google application default
\* credentials), an audio format and a speed in tenths
TTSConfigs ==
  [api_key : BOOLEAN, env_key : BOOLEAN, api_base : BOOLEAN, deployment : BOOLEAN,
   audio_format : {"mp3", "wav", "ogg"}, speed : {4, 5, 10, 20, 21}]

valid_formats_mutant == {"mp3", "opus", "aac", "flac", "wav", "pcm", "ogg"}

\* openai.py: valid_formats
valid_formats == {"mp3", "opus", "aac", "flac", "wav", "pcm"}

\* openai.py: if not (0.5 <= self.speed <= 2.0), the speed in tenths
ValidSpeed(speed) == 5 <= speed /\ speed <= 20

\* the exception of the provider's __init__, "none" when it returns.
\* elevenlabs.py: no api_key; openai.py: no api_key in the config and none in
\* openai.api_key, then the format, then the speed; azureopenai.py: not
\* all([api_base, api_key, deployment]); gemini.py, geminimulti.py:
\* TextToSpeechClient(client_options={"api_key": None}) looks for the default
\* credentials of the environment and raises when there are none
ProviderInitError(name, cfg) ==
  CASE name = "elevenlabs" ->
         IF ~cfg.api_key THEN "ValueError" ELSE "none"
    [] name = "openai" ->
         IF ~cfg.api_key /\ ~cfg.env_key THEN "ValueError"
         ELSE IF cfg.audio_format \notin valid_formats THEN "ValueError"
         ELSE IF ~ValidSpeed(cfg.speed) THEN "ValueError"
         ELSE "none"
    [] name = "azureopenai" ->
         IF ~(cfg.api_base /\ cfg.api_key /\ cfg.deployment) THEN "ValueError" ELSE "none"
    [] name \in {"gemini", "geminimulti"} ->
         IF ~cfg.api_key /\ ~cfg.env_key THEN "DefaultCredentialsError" ELSE "none"
    [] OTHER -> "none"

\* factory.py TTSProviderFactory.create: ValueError for a name that is not in
\* _providers, else the provider's __init__
CreateError(name, cfg) ==
  IF name \notin Providers THEN "ValueError" ELSE ProviderInitError(name, cfg)

ConstructInit ==
  /\ provider \in ProviderNames
  /\ tts_config \in TTSConfigs
  /\ text = <<>>
  /\ speaker_configs = <<>>
  /\ pc = "new"
  /\ segments = <<>>
  /\ new_transcript = None
  /\ reparsed = <<>>
  /\ NoCall

\* text_to_speech.py __init__: self.provider = TTSProviderFactory.create(...);
\* an exception leaves the constructor, there is no TextToSpeech object
Construct ==
  /\ pc = "new"
  /\ IF CreateError(provider, tts_config) # "none"
       THEN /\ pc' = "raised"
            /\ err' = [stage |-> "configuration",
                       kind |-> CreateError(provider, tts_config), cause |-> "none"]
       ELSE /\ pc' = "constructed"
            /\ UNCHANGED err
  /\ UNCHANGED <<inputs, chunk_vars, reparsed, fs_vars, segments, audio_file, i,
                 el_vars, merge_vars, new_transcript, gen_called, gen_failed>>

\* convert_to_speech is called on the constructed object: its first
\* generation call (generate_audio is entered with the first segment)
FirstGeneration ==
  /\ pc = "constructed"
  /\ gen_called' = TRUE
  /\ pc' = "generate"
  /\ UNCHANGED <<inputs, chunk_vars, reparsed, fs_vars, segments, audio_file, i,
                 el_vars, merge_vars, new_transcript, err, gen_failed>>

ConstructNext ==
  \/ Construct
  \/ FirstGeneration

ConstructSpec == ConstructInit /\ [][ConstructNext]_vars

\* ------------------------------- two convert_to_speech calls, one temp root
\* In this specification the variables of a call are functions of the call:
\* pc, text (the number of segments the call's text parses to), temp_dir,
\* generated_id, i, segments, audio_file, audio_segments, and created_temp,
\* here the temporary paths the call has written and not removed.  dirs and
\* fs are the one file system both calls work on.  history is the set of the
\* accesses a call made to a path the other call had written and not removed.
\* The content a call writes is <<call, index of the segment>>.
Calls == {1, 2}

\* the names mkdtemp, NamedTemporaryFile and uuid4 draw from
RandomNames == {1, 2}

FreshDirNamesMutant(existing) == RandomNames

\* tempfile.TemporaryDirectory(dir=...): mkdtemp makes a directory that did
\* not exist
FreshDirNames(existing) == RandomNames \ existing

\* tempfile.NamedTemporaryFile(dir=...): a file that did not exist
FreshFileNames(fsys) == {n \in RandomNames : EdgeTempPath(n) \notin DOMAIN fsys}

\* the call is inside its with tempfile.TemporaryDirectory() block
Live(c) == pc[c] \notin {"start", "returned", "raised"}

\* the accesses of call c to the paths ps that are foreign: the other call
\* has written the path and not removed it
Foreign2(c, op, ps) ==
  {[by |-> c, op |-> op, path |-> p] :
     p \in {q \in ps : \E d \in Calls \ {c} : q \in created_temp[d]}}

\* the variables the two calls do not use
unused2 ==
  <<speaker_configs, save_to_file, tts_config, rep, audio_chunks, n_convert, n_get_all,
    prev_len, previous_request_ids, normalized_segments, combined, new_transcript,
    err, gen_called, gen_failed, reparsed, chunk_vars>>

ConcurrentInit ==
  /\ provider \in {"edge", "openai", "geminimulti"}
  /\ text \in [Calls -> 1..MaxSegs]
  /\ pc = [c \in Calls |-> "start"]
  /\ temp_dir = [c \in Calls |-> None]
  /\ generated_id = [c \in Calls |-> 0]
  /\ created_temp = [c \in Calls |-> {}]
  /\ i = [c \in Calls |-> 0]
  /\ segments = [c \in Calls |-> <<>>]
  /\ audio_file = [c \in Calls |-> None]
  /\ audio_segments = [c \in Calls |-> <<>>]
  /\ dirs = {}
  /\ fs = <<>>
  /\ history = {}
  /\ speaker_configs = <<>>
  /\ save_to_file = FALSE
  /\ tts_config = DefaultTTSConfig
  /\ rep = 0
  /\ audio_chunks = None
  /\ n_convert = 0
  /\ n_get_all = 0
  /\ max_bytes = 0
  /\ max_chars = 0
  /\ text_chunks = <<>>
  /\ current_chunk = <<>>
  /\ prev_len = 0
  /\ previous_request_ids = <<>>
  /\ normalized_segments = <<>>
  /\ combined = None
  /\ new_transcript = None
  /\ err = NoError
  /\ gen_called = FALSE
  /\ gen_failed = FALSE
  /\ reparsed = <<>>

\* with tempfile.TemporaryDirectory(dir=self.temp_audio_dir) as temp_dir;
\* segments = self.provider.split_qa(...)
Enter2(c) ==
  /\ pc[c] = "start"
  /\ \E d \in FreshDirNames(dirs) :
       /\ temp_dir' = [temp_dir EXCEPT ![c] = Some(d)]
       /\ dirs' = dirs \cup {d}
  /\ segments' = [segments EXCEPT ![c] =
                    [k \in 1..text[c] |-> [audio |-> None, audio_file |-> None]]]
  /\ i' = [i EXCEPT ![c] = 1]
  /\ pc' = [pc EXCEPT ![c] = "generate"]
  /\ UNCHANGED <<provider, text, fs, created_temp, generated_id, audio_file,
                 audio_segments, history, unused2>>

\* openai.py generate_audio: every segment gets its audio, or the call raises;
\* geminimulti.py generate_joint_audio: the joint audio, kept in segment 1
Generate2(c) ==
  /\ pc[c] = "generate"
  /\ provider \in {"openai", "geminimulti"}
  /\ \/ /\ segments' = [segments EXCEPT ![c] =
                          [k \in 1..text[c] |-> [@[k] EXCEPT !.audio = Some(<<c, k>>)]]]
        /\ pc' = [pc EXCEPT ![c] = "save_chunks"]
     \/ /\ pc' = [pc EXCEPT ![c] = "raising"]
        /\ UNCHANGED segments
  /\ UNCHANGED <<provider, text, temp_dir, dirs, fs, created_temp, generated_id, i,
                 audio_file, audio_segments, history, unused2>>

\* edge.py _generate: NamedTemporaryFile(suffix=".mp3", delete=False,
\* dir=temp_audio_dir); the name is kept in generated_id until the file is removed
EdgeCreate2(c) ==
  /\ pc[c] = "generate"
  /\ provider = "edge"
  /\ i[c] <= text[c]
  /\ \E n \in FreshFileNames(fs) :
       /\ fs' = WriteFile(fs, EdgeTempPath(n), <<>>)
       /\ created_temp' = [created_temp EXCEPT ![c] = @ \cup {EdgeTempPath(n)}]
       /\ generated_id' = [generated_id EXCEPT ![c] = n]
       /\ history' = history \cup Foreign2(c, "write", {EdgeTempPath(n)})
  /\ pc' = [pc EXCEPT ![c] = "edge_save"]
  /\ UNCHANGED <<provider, text, temp_dir, dirs, segments, i, audio_file,
                 audio_segments, unused2>>

\* edge.py _generate: communicate.save(temp_path); segment.audio = f.read();
\* finally: os.remove(temp_path)
EdgeSave2(c) ==
  /\ pc[c] = "edge_save"
  /\ LET temp_path == EdgeTempPath(generated_id[c])
         saved == WriteFile(fs, temp_path, <<c, i[c]>>)
     IN  /\ segments' = [segments EXCEPT ![c][i[c]].audio = Some(saved[temp_path])]
         /\ fs' = RemoveFile(fs, temp_path)
         /\ created_temp' = [created_temp EXCEPT ![c] = @ \ {temp_path}]
         /\ history' = history \cup Foreign2(c, "write", {temp_path})
                               \cup Foreign2(c, "remove", {temp_path})
  /\ i' = [i EXCEPT ![c] = @ + 1]
  /\ generated_id' = [generated_id EXCEPT ![c] = 0]
  /\ pc' = [pc EXCEPT ![c] = "generate"]
  /\ UNCHANGED <<provider, text, temp_dir, dirs, audio_file, audio_segments, unused2>>

\* edge.py generate_audio: return segments
EdgeReturn2(c) ==
  /\ pc[c] = "generate"
  /\ provider = "edge"
  /\ i[c] > text[c]
  /\ pc' = [pc EXCEPT ![c] = "save_chunks"]
  /\ UNCHANGED <<provider, text, temp_dir, dirs, fs, created_temp, generated_id,
                 segments, i, audio_file, audio_segments, history, unused2>>

\* _generate_audio_segments: generated_id = str(uuid.uuid4()); every segment's
\* audio is written to {temp_dir}/{generated_id}_{idx}_speaker{id}, the joint
\* audio to {temp_dir}/{generated_id}_full_audio
SaveChunks2(c) ==
  /\ pc[c] = "save_chunks"
  /\ \E gid \in RandomNames :
       LET dir == temp_dir[c][1]
           path(k) == SegmentPath(dir, gid, k - 1, 1)
           written == IF provider = "geminimulti" THEN {JointPath(dir, gid)}
                      ELSE {path(k) : k \in 1..text[c]}
       IN  /\ generated_id' = [generated_id EXCEPT ![c] = gid]
           /\ fs' = [p \in DOMAIN fs \cup written |->
                       IF p \in written
                         THEN (IF provider = "geminimulti" THEN <<c, 0>>
                               ELSE segments[c][CHOOSE k \in 1..text[c] : p = path(k)].audio[1])
                         ELSE fs[p]]
           /\ created_temp' = [created_temp EXCEPT ![c] = @ \cup written]
           /\ history' = history \cup Foreign2(c, "write", written)
           /\ IF provider = "geminimulti"
                THEN /\ audio_file' = [audio_file EXCEPT ![c] = Some(JointPath(dir, gid))]
                     /\ UNCHANGED segments
                ELSE /\ segments' = [segments EXCEPT ![c] =
                                       [k \in 1..text[c] |->
                                          [@[k] EXCEPT !.audio_file = Some(path(k))]]]
                     /\ UNCHANGED audio_file
  /\ pc' = [pc EXCEPT ![c] = "merge"]
  /\ UNCHANGED <<provider, text, temp_dir, dirs, i, audio_segments, unused2>>

\* _merge_audio_files: AudioSegment.from_file of the joint file or of every
\* segment's file; FileNotFoundError when a file is not there
MergeLoad2(c) ==
  /\ pc[c] = "merge"
  /\ LET paths == IF audio_file[c] # None THEN <<audio_file[c][1]>>
                  ELSE [k \in 1..text[c] |-> segments[c][k].audio_file[1]]
         read == {paths[k] : k \in 1..Len(paths)}
     IN  /\ history' = history \cup Foreign2(c, "read", read)
         /\ IF read \subseteq DOMAIN fs
              THEN /\ audio_segments' = [audio_segments EXCEPT ![c] =
                                           [k \in 1..Len(paths) |-> fs[paths[k]]]]
                   /\ pc' = [pc EXCEPT ![c] = "return"]
              ELSE /\ pc' = [pc EXCEPT ![c] = "raising"]
                   /\ UNCHANGED audio_segments
  /\ UNCHANGED <<provider, text, temp_dir, dirs, fs, created_temp, generated_id,
                 segments, i, audio_file, unused2>>

\* the with block is left, by return or by an exception:
\* TemporaryDirectory.__exit__ removes the directory and all that is in it
Exit2(c) ==
  /\ pc[c] \in {"return", "raising"}
  /\ LET dir == temp_dir[c][1]
         removed == {p \in DOMAIN fs : p[1] = dir}
     IN  /\ fs' = RemoveTree(fs, dir)
         /\ dirs' = dirs \ {dir}
         /\ history' = history \cup Foreign2(c, "remove", removed)
  /\ created_temp' = [created_temp EXCEPT ![c] = {}]
  /\ pc' = [pc EXCEPT ![c] = IF pc[c] = "return" THEN "returned" ELSE "raised"]
  /\ UNCHANGED <<provider, text, temp_dir, generated_id, segments, i, audio_file,
                 audio_segments, unused2>>

ConcurrentNext ==
  \E c \in Calls :
    \/ Enter2(c)
    \/ Generate2(c)
    \/ EdgeCreate2(c)
    \/ EdgeSave2(c)
    \/ EdgeReturn2(c)
    \/ SaveChunks2(c)
    \/ MergeLoad2(c)
    \/ Exit2(c)

ConcurrentSpec == ConcurrentInit /\ [][ConcurrentNext]_vars

\* ----------------------------- ElevenLabsTTS.generate_audio, called on its own
\* most segments of one generate_audio call that is explored
MaxTurns == 5

\* the transcripts of the call: up to MaxTurns turns of one speaker with one
\* text and no emote (every request text is the same), and up to two turns of
\* either speaker, with or without emote, the first saying "a", the second "b"
ELTranscripts ==
  UNION {[1..n -> {[speaker_id |-> 1, emote |-> None, text |-> "a"]}] : n \in 0..MaxTurns}
  \cup
  UNION {{t \in [1..n -> [speaker_id : SpeakerIds, emote : Emotes, text : {"a", "b"}]] :
            \A k \in 1..n : t[k].text = <<"a", "b">>[k]} : n \in 1..2}

\* schemas.py SpeakerConfig: the first speaker has the defaults, the second
\* has a language with and one without narration phrase, emotes in use or
\* not, and an emote_pause or none
ELSpeakerConfigs ==
  {c \in [SpeakerIds -> [voice : {"id", "name"}, language : {"en-US", "FI", "de"},
                         use_emote : BOOLEAN, emote_pause : {None, Some(15)},
                         emote_merge_pause : {Some(500)}]] :
     /\ c[1] = [voice |-> "id", language |-> "en-US", use_emote |-> TRUE,
                emote_pause |-> Some(15), emote_merge_pause |-> Some(500)]
     /\ c[2].voice = "name"
     /\ c[2].language # "en-US"}

\* elevenlabs.py generate_audio(segments): previous_request_ids = [] and the
\* for loop is at its first segment
ELInit ==
  /\ provider = "elevenlabs"
  /\ text \in ELTranscripts
  /\ speaker_configs \in ELSpeakerConfigs
  /\ (\A k \in 1..Len(text) : text[k].speaker_id = 1) => speaker_configs[2].language = "FI"
                                                         /\ speaker_configs[2].use_emote
                                                         /\ speaker_configs[2].emote_pause # None
  /\ save_to_file = FALSE
  /\ pc = "generate"
  /\ temp_dir = Some(NewTempDir)
  /\ dirs = {NewTempDir}
  /\ fs = <<>>
  /\ created_temp = {}
  /\ generated_id = 0
  /\ segments = split_qa(text, speaker_configs)
  /\ audio_file = None
  /\ i = 1
  /\ rep = 0
  /\ audio_chunks = None
  /\ n_convert = 0
  /\ n_get_all = 0
  /\ max_bytes = 0
  /\ max_chars = 0
  /\ text_chunks = <<>>
  /\ current_chunk = <<>>
  /\ prev_len = 0
  /\ previous_request_ids = <<>>
  /\ history = <<>>
  /\ audio_segments = <<>>
  /\ normalized_segments = <<>>
  /\ combined = None
  /\ new_transcript = None
  /\ err = NoError
  /\ gen_called = FALSE
  /\ gen_failed = FALSE
  /\ reparsed = <<>>
  /\ tts_config = DefaultTTSConfig

ELNext ==
  \/ ELResolveVoice
  \/ ELConvert
  \/ ELAfterConvert
  \/ ELHistoryLookup
  \/ ELNextSegment
  \/ GenerateReturn

ELSpec == ELInit /\ [][ELNext]_vars

\* ------------------------------- GeminiMultiTTS.chunk_text, called on its own
\* most pieces of one text that chunk_text is given
MaxParts == 3

\* the text of chunk_text is a row of tokens: the tags <PersonN> and
\* </PersonN>, a blank, and a run of characters other than blanks and tags
\* with its length in characters and in UTF-8 bytes
PersonOpen(n) == [kind |-> "open", num |-> n, chars |-> 9, bytes |-> 9]

PersonClose(n) == [kind |-> "close", num |-> n, chars |-> 10, bytes |-> 10]

Blank == [kind |-> "blank", num |-> 0, chars |-> 1, bytes |-> 1]

Run(chars, bytes) == [kind |-> "run", num |-> 0, chars |-> chars, bytes |-> bytes]

\* the pieces the texts are made of: a short and a long turn, a turn with
\* blanks around a two-byte character, text outside of turns, a turn of a
\* third speaker, a turn closed with the other speaker's tag, an opening tag
\* alone, and a blank
ChunkParts ==
  { <<PersonOpen(1), Run(5, 5), PersonClose(1)>>,
    <<PersonOpen(2), Run(20, 20), PersonClose(2)>>,
    <<PersonOpen(1), Blank, Run(1, 2), Blank, PersonClose(1)>>,
    <<Run(5, 5)>>,
    <<PersonOpen(3), Run(5, 5), PersonClose(3)>>,
    <<PersonOpen(1), Run(5, 5), PersonClose(2)>>,
    <<PersonOpen(2), Run(5, 5)>>,
    <<Blank>> }

\* the texts: up to MaxParts pieces in a row
ChunkTexts == {Concat(parts) : parts \in UNION {[1..n -> ChunkParts] : n \in 0..MaxParts}}

RECURSIVE Utf8Len(_)
\* len(s.encode("utf-8"))
Utf8Len(toks) == IF toks = <<>> THEN 0 ELSE toks[1].bytes + Utf8Len(Tail(toks))

\* <Person[12]> and </Person[12]>
IsOpen12(t) == t.kind = "open" /\ t.num \in {1, 2}

IsClose12(t) == t.kind = "close" /\ t.num \in {1, 2}

\* str.strip() of a row of tokens
StripBlanks(toks) ==
  LET inked == {k \in 1..Len(toks) : toks[k].kind # "blank"}
  IN  IF inked = {} THEN <<>>
      ELSE SubSeq(toks, CHOOSE k \in inked : \A j \in inked : k <= j,
                        CHOOSE k \in inked : \A j \in inked : j <= k)

\* the first match of <Person[12]>.*?</Person[12]> in toks: <<a, b>>, the
\* positions of its opening and closing tag, <<>> when there is none
FirstTurn(toks) ==
  LET opens == {a \in 1..Len(toks) :
                  IsOpen12(toks[a]) /\ \E b \in (a + 1)..Len(toks) : IsClose12(toks[b])}
  IN  IF opens = {} THEN <<>>
      ELSE LET a == CHOOSE k \in opens : \A j \in opens : k <= j
               closes == {b \in (a + 1)..Len(toks) : IsClose12(toks[b])}
           IN  <<a, CHOOSE k \in closes : \A j \in closes : k <= j>>

RECURSIVE Sections(_)
\* sections = re.split(r"(<Person[12]>.*?</Person[12]>)", text);
\* sections = [s.strip() for s in sections if s.strip()]
Sections(toks) ==
  LET m == FirstTurn(toks)
      kept(s) == IF StripBlanks(s) = <<>> THEN <<>> ELSE <<StripBlanks(s)>>
  IN  IF m = <<>> THEN kept(toks)
      ELSE kept(SubSeq(toks, 1, m[1] - 1)) \o <<SubSeq(toks, m[1], m[2])>>
           \o Sections(SubSeq(toks, m[2] + 1, Len(toks)))

\* tag_match = re.match(r"<(Person[12])>(.*?)</Person[12]>", section)
TagMatches(section) == FirstTurn(section) # <<>> /\ FirstTurn(section)[1] = 1

\* f"<{speaker_tag}>{content}</{speaker_tag}>" with speaker_tag = group(1)
\* and content = group(2).strip()
TaggedSection(section) ==
  LET speaker_tag == section[1].num
      content == StripBlanks(SubSeq(section, 2, FirstTurn(section)[2] - 1))
  IN  <<PersonOpen(speaker_tag)>> \o content \o <<PersonClose(speaker_tag)>>

\* chunk_text(text, max_bytes): chunks = [], current_chunk = "", the loop is
\* at the first section
ChunkTextInit ==
  /\ text \in ChunkTexts
  /\ max_bytes \in {30, 48, 100}
  /\ max_chars = 0
  /\ text_chunks = <<>>
  /\ current_chunk = <<>>
  /\ i = 1
  /\ pc = "chunk_text"
  /\ provider = "geminimulti"
  /\ speaker_configs = <<>>
  /\ tts_config = DefaultTTSConfig
  /\ segments = <<>>
  /\ new_transcript = None
  /\ reparsed = <<>>
  /\ save_to_file = FALSE
  /\ temp_dir = None
  /\ dirs = {}
  /\ fs = <<>>
  /\ created_temp = {}
  /\ generated_id = 0
  /\ audio_file = None
  /\ rep = 0
  /\ audio_chunks = None
  /\ n_convert = 0
  /\ n_get_all = 0
  /\ prev_len = 0
  /\ previous_request_ids = <<>>
  /\ history = <<>>
  /\ audio_segments = <<>>
  /\ normalized_segments = <<>>
  /\ combined = None
  /\ err = NoError
  /\ gen_called = FALSE
  /\ gen_failed = FALSE

\* chunk_text, one turn of  for section in sections: a section that is a
\* turn goes to the current chunk, or starts a new one when the current
\* chunk with it would be larger than max_bytes
ChunkSection ==
  /\ pc = "chunk_text"
  /\ i <= Len(Sections(text))
  /\ LET section == Sections(text)[i]
     IN  IF TagMatches(section)
           THEN LET test_chunk == current_chunk \o TaggedSection(section)
                IN  IF Utf8Len(test_chunk) > max_bytes /\ current_chunk # <<>>
                      THEN /\ text_chunks' = Append(text_chunks, current_chunk)
                           /\ current_chunk' = TaggedSection(section)
                      ELSE /\ current_chunk' = test_chunk
                           /\ UNCHANGED text_chunks
           ELSE UNCHANGED <<text_chunks, current_chunk>>
  /\ i' = i + 1
  /\ UNCHANGED <<inputs, max_bytes, max_chars, reparsed, pc, fs_vars, segments, audio_file,
                 el_vars, merge_vars, new_transcript, err, gen_called, gen_failed>>

\* chunk_text: if current_chunk: chunks.append(current_chunk); return chunks
ChunkTextReturn ==
  /\ pc = "chunk_text"
  /\ i > Len(Sections(text))
  /\ text_chunks' = IF current_chunk # <<>> THEN Append(text_chunks, current_chunk)
                    ELSE text_chunks
  /\ pc' = "chunked"
  /\ UNCHANGED <<inputs, max_bytes, max_chars, current_chunk, reparsed, fs_vars, segments,
                 audio_file, i, el_vars, merge_vars, new_transcript, err, gen_called,
                 gen_failed>>

ChunkTextNext == ChunkSection \/ ChunkTextReturn

ChunkTextSpec == ChunkTextInit /\ [][ChunkTextNext]_vars

\* --------------------------- GeminiMultiTTS.split_turn_text, called on its own
\* most characters of one text that split_turn_text is given
MaxLen == 6

\* the characters of the texts: a letter, a blank and the end of a sentence
TurnChars == {"a", " ", "."}

TurnTexts == UNION {[1..n -> TurnChars] : n \in 0..MaxLen}

\* [.!?]
IsEnder(c) == c = "."

\* \s
IsWhite(c) == c = " "

\* the first match of [.!?]+(?:\s+|$) in s: <<a, b>>, its first and last
\* position, <<>> when there is none; the marks of a match are all the marks
\* of a row that ends at a blank or at the end of the text
FirstSeparator(s) ==
  LET ends(a) == {e \in a..Len(s) :
                    /\ \A k \in a..e : IsEnder(s[k])
                    /\ e = Len(s) \/ IsWhite(s[e + 1])}
      starts == {a \in 1..Len(s) : ends(a) # {}}
  IN  IF starts = {} THEN <<>>
      ELSE LET a == CHOOSE k \in starts : \A j \in starts : k <= j
               e == CHOOSE k \in ends(a) : \A j \in ends(a) : j <= k
               white == {w \in (e + 1)..Len(s) : \A k \in (e + 1)..w : IsWhite(s[k])}
           IN  <<a, IF white = {} THEN e ELSE CHOOSE k \in white : \A j \in white : j <= k>>

RECURSIVE Sentences(_)
\* sentences = re.split(r"([.!?]+(?:\s+|$))", text);
\* sentences = [s for s in sentences if s]
Sentences(s) ==
  LET m == FirstSeparator(s)
      kept(part) == IF part = <<>> THEN <<>> ELSE <<part>>
  IN  IF m = <<>> THEN kept(s)
      ELSE kept(SubSeq(s, 1, m[1] - 1)) \o <<SubSeq(s, m[1], m[2])>>
           \o Sentences(SubSeq(s, m[2] + 1, Len(s)))

\* str.strip()
StripWhite(s) ==
  LET inked == {k \in 1..Len(s) : ~IsWhite(s[k])}
  IN  IF inked = {} THEN <<>>
      ELSE SubSeq(s, CHOOSE k \in inked : \A j \in inked : k <= j,
                     CHOOSE k \in inked : \A j \in inked : j <= k)

RECURSIVE SplitWords(_)
\* str.split(): the words between the runs of blanks
SplitWords(s) ==
  LET t == StripWhite(s)
      white == {k \in 1..Len(t) : IsWhite(t[k])}
  IN  IF t = <<>> THEN <<>>
      ELSE IF white = {} THEN <<t>>
      ELSE LET b == CHOOSE k \in white : \A j \in white : k <= j
           IN  <<SubSeq(t, 1, b - 1)>> \o SplitWords(SubSeq(t, b + 1, Len(t)))

RECURSIVE WordLoop(_, _, _, _)
\* temp_chunk = ""; for word in words: if len(temp_chunk) + len(word) + 1 >
\* max_chars: chunks.append(temp_chunk.strip()); temp_chunk = word; else:
\* temp_chunk += " " + word if temp_chunk else word.  The value is
\* <<chunks, temp_chunk>> after the loop.
WordLoop(words, list, temp_chunk, limit) ==
  IF words = <<>> THEN <<list, temp_chunk>>
  ELSE IF Len(temp_chunk) + Len(words[1]) + 1 > limit
    THEN WordLoop(Tail(words), Append(list, StripWhite(temp_chunk)), words[1], limit)
    ELSE WordLoop(Tail(words), list,
                  IF temp_chunk # <<>> THEN temp_chunk \o <<" ">> \o words[1] ELSE words[1],
                  limit)

\* split_turn_text(text, max_chars) is entered
SplitTurnInit ==
  /\ text \in TurnTexts
  /\ max_chars \in {2, 3, 4}
  /\ max_bytes = 0
  /\ text_chunks = <<>>
  /\ current_chunk = <<>>
  /\ i = 1
  /\ pc = "split_turn_text"
  /\ provider = "geminimulti"
  /\ speaker_configs = <<>>
  /\ tts_config = DefaultTTSConfig
  /\ segments = <<>>
  /\ new_transcript = None
  /\ reparsed = <<>>
  /\ save_to_file = FALSE
  /\ temp_dir = None
  /\ dirs = {}
  /\ fs = <<>>
  /\ created_temp = {}
  /\ generated_id = 0
  /\ audio_file = None
  /\ rep = 0
  /\ audio_chunks = None
  /\ n_convert = 0
  /\ n_get_all = 0
  /\ prev_len = 0
  /\ previous_request_ids = <<>>
  /\ history = <<>>
  /\ audio_segments = <<>>
  /\ normalized_segments = <<>>
  /\ combined = None
  /\ err = NoError
  /\ gen_called = FALSE
  /\ gen_failed = FALSE

\* split_turn_text: if len(text) <= max_chars: return [text]
SplitTurnShort ==
  /\ pc = "split_turn_text"
  /\ Len(text) <= max_chars
  /\ text_chunks' = <<text>>
  /\ pc' = "split_done"
  /\ UNCHANGED <<inputs, max_bytes, max_chars, current_chunk, reparsed, fs_vars, segments,
                 audio_file, i, el_vars, merge_vars, new_transcript, err, gen_called,
                 gen_failed>>

\* split_turn_text, one turn of  for i in range(0, len(sentences), 2): the
\* sentence with its separator goes to the current chunk, or the current
\* chunk is stored and the sentence starts the next one, or the sentence is
\* split at its blanks
SplitTurnSentence ==
  /\ pc = "split_turn_text"
  /\ Len(text) > max_chars
  /\ i <= Len(Sentences(text))
  /\ LET sentences == Sentences(text)
         sentence == sentences[i]
         separator == IF i + 1 <= Len(sentences) THEN sentences[i + 1] ELSE <<>>
         complete_sentence == sentence \o separator
     IN  IF Len(current_chunk) + Len(complete_sentence) > max_chars
           THEN IF current_chunk # <<>>
                  THEN /\ text_chunks' = Append(text_chunks, StripWhite(current_chunk))
                       /\ current_chunk' = complete_sentence
                  ELSE LET after == WordLoop(SplitWords(complete_sentence), text_chunks,
                                             <<>>, max_chars)
                       IN  /\ text_chunks' = after[1]
                           /\ current_chunk' = after[2]
           ELSE /\ current_chunk' = current_chunk \o complete_sentence
                /\ UNCHANGED text_chunks
  /\ i' = i + 2
  /\ UNCHANGED <<inputs, max_bytes, max_chars, reparsed, pc, fs_vars, segments, audio_file,
                 el_vars, merge_vars, new_transcript, err, gen_called, gen_failed>>

\* split_turn_text: if current_chunk: chunks.append(current_chunk.strip());
\* return chunks
SplitTurnReturn ==
  /\ pc = "split_turn_text"
  /\ Len(text) > max_chars
  /\ i > Len(Sentences(text))
  /\ text_chunks' = IF current_chunk # <<>>
                      THEN Append(text_chunks, StripWhite(current_chunk))
                      ELSE text_chunks
  /\ pc' = "split_done"
  /\ UNCHANGED <<inputs, max_bytes, max_chars, current_chunk, reparsed, fs_vars, segments,
                 audio_file, i, el_vars, merge_vars, new_transcript, err, gen_called,
                 gen_failed>>

SplitTurnNext == SplitTurnShort \/ SplitTurnSentence \/ SplitTurnReturn

SplitTurnSpec == SplitTurnInit /\ [][SplitTurnNext]_vars

\* ------------------------------------------------------------------ claims
\* the call has left convert_to_speech
Exited == pc \in {"returned", "raised"}

\* _merge_audio_files has combined the clips and set the timing
Merged == combined # None

\* C1: after a successful per-segment merge every segment's end_time minus
\* start_time is its audio_length, the duration of its trimmed clip; the
\* first start_time is 0 and each next start_time is the end_time before it.
TimingAdditivity ==
  (Merged /\ audio_file = None) =>
    \A k \in 1..Len(segments) :
      /\ segments[k].end_time - segments[k].start_time = segments[k].audio_length
      /\ segments[k].audio_length = ClipLen(audio_segments[k].clip)
      /\ k = 1 => segments[k].start_time = 0
      /\ k > 1 => segments[k].start_time = segments[k - 1].end_time

\* witness of C1: two merged segments of different length, the first trimmed
TimingAdditivityWitness ==
  /\ Merged /\ audio_file = None
  /\ Len(segments) = 2
  /\ segments[1].audio_length = 400 + 500
  /\ segments[2].audio_length = 700

\* the pieces of a clip that were generated for segment k
PiecesOf(clip, k) == SelectSeq(clip, LAMBDA piece : piece.seg = k)

\* C2: the combined clip is the trimmed, gain-adjusted clips of the segments
\* one after the other in segment order, which is the order of the person
\* tags of the input whatever the speaker ids; its duration is the last
\* segment's end_time.
CombinedInOrder ==
  (Merged /\ Len(segments) >= 1) =>
    /\ Len(segments) = Len(text)
    /\ \A k \in 1..Len(segments) :
         /\ segments[k].speaker_id = text[k].speaker_id
         /\ segments[k].parameters.emote = text[k].emote
         /\ segments[k].text = text[k].text
         /\ PiecesOf(combined[1], k) =
              ApplyGain(audio_segments[k].clip,
                        Gain(TargetLoudness(audio_segments), Rms(audio_segments[k].clip)))
         /\ \A n \in 1..Len(audio_segments[k].clip) : audio_segments[k].clip[n].seg = k
    /\ \A m, n \in 1..Len(combined[1]) :
         m < n => \/ combined[1][m].seg < combined[1][n].seg
                  \/ /\ combined[1][m].seg = combined[1][n].seg
                     /\ combined[1][m].part < combined[1][n].part
    /\ \A n \in 1..Len(combined[1]) : combined[1][n].seg \in 1..Len(segments)
    /\ ClipLen(combined[1]) = segments[Len(segments)].end_time

\* witness of C2: speaker 2 speaks before speaker 1 and both clips are merged
CombinedInOrderWitness ==
  /\ Merged
  /\ Len(segments) = 2
  /\ segments[1].speaker_id = 2
  /\ segments[2].speaker_id = 1
  /\ Rms(audio_segments[1].clip) # Rms(audio_segments[2].clip)

\* the 1000 ms clip of RMS 0 generated for segment k
SilentClip(k) == VendorAudio(k, [durs |-> <<1000>>, gap |-> 0, rms |-> 0])

\* C3: <person1>Hi</person1><person2>Hello</person2> with a per-segment
\* adapter that returns a silent 1000 ms clip for each segment converts
\* successfully to a combined clip of 2000 ms with timings (0, 1000) and
\* (1000, 2000).
SilentScenario ==
  ( /\ Exited
    /\ provider \in PerSegment
    /\ ~save_to_file
    /\ Len(segments) = 2
    /\ segments[1].speaker_id = 1 /\ segments[2].speaker_id = 2
    /\ \A k \in 1..2 : segments[k].audio = Some(SilentClip(k)) )
  => /\ pc = "returned"
     /\ Merged
     /\ ClipLen(combined[1]) = 2000
     /\ segments[1].start_time = 0 /\ segments[1].end_time = 1000
     /\ segments[2].start_time = 1000 /\ segments[2].end_time = 2000

\* C4: with save_to_file, convert_to_speech either returns with the audio
\* file and the transcript file written, or raises with neither of them left
\* (stated for a transcript of at least one turn).
AllOrNothing ==
  (save_to_file /\ Len(text) >= 1) =>
    /\ pc = "returned" =>
         /\ OutputFile \in DOMAIN fs /\ fs[OutputFile] = combined[1]
         /\ TranscriptFile \in DOMAIN fs /\ fs[TranscriptFile] = new_transcript[1]
    /\ pc = "raised" =>
         /\ OutputFile \notin DOMAIN fs
         /\ TranscriptFile \notin DOMAIN fs

\* C5: the call has its own temporary directory from its start on, and when
\* it has exited, by return or by an exception of any stage, the directory
\* and every temporary file the call created are gone.
TempScoped ==
  /\ pc \notin {"start", "returned", "raised"} =>
       temp_dir # None /\ temp_dir[1] \in dirs
  /\ Exited =>
       /\ temp_dir[1] \notin dirs
       /\ created_temp \cap DOMAIN fs = {}
       /\ \A p \in DOMAIN fs : p[1] # temp_dir[1]

\* witness of C5: the call raised in the merge after writing temporary files
TempScopedWitness ==
  /\ pc = "raised"
  /\ err.stage = "merge"
  /\ Cardinality(created_temp) >= 2

\* C6: with ElevenLabs, a segment whose voice is neither a voice id nor a
\* known name makes the conversion fail with the voice-not-found error
\* before any text_to_speech.convert call of the conversion.
VoiceCheckedFirst ==
  ( /\ provider = "elevenlabs"
    /\ \E k \in 1..Len(segments) : segments[k].voice_config.voice = "unknown" )
  => /\ ~gen_called
     /\ Exited => pc = "raised" /\ err.kind = "VoiceNotFound"

\* C7: ElevenLabs attempts the generation of a segment at most 3 times, a
\* further time only after the previous attempt raised; audio of an attempt
\* becomes the segment's audio; after 3 raising attempts generate_audio
\* raises, the segment and all later ones have no audio and the conversion
\* fails.
RetryBounded ==
  /\ n_convert <= 3
  /\ pc = "el_generate" =>
       n_convert = rep + (IF audio_chunks # None THEN 1 ELSE 0)
  /\ pc = "el_history" =>
       audio_chunks # None /\ segments[i].audio = audio_chunks
  /\ (provider = "elevenlabs" /\ gen_failed) =>
       /\ pc \in {"raising", "raised"}
       /\ err.stage = "generation"
       /\ n_convert = 3 /\ rep = 3
       /\ \A k \in i..Len(segments) : segments[k].audio = None
  /\ (provider = "elevenlabs" /\ pc \in {"el_generate", "el_history"}) =>
       \A k \in (i + 1)..Len(segments) : segments[k].audio = None

\* witness of C7: the three attempts for the first of two segments raised
RetryBoundedWitness ==
  /\ provider = "elevenlabs"
  /\ pc = "raised"
  /\ err.stage = "generation"
  /\ n_convert = 3
  /\ i = 1 /\ Len(segments) = 2

\* C8: with a joint-audio path, _merge_audio_files returns successfully for
\* any segment list, the joint clip being the combined clip (stated for an
\* audible joint clip).
JointMergeReturns ==
  ( /\ audio_file # None
    /\ Len(audio_segments) = 1
    /\ Rms(audio_segments[1].clip)[1] > 0 )
  => /\ err.stage # "merge"
     /\ Merged => combined[1] = audio_segments[1].clip

\* C9: when _generate_audio_segments has completed with a per-segment
\* provider, every segment has an audio_file in the call's temporary
\* directory that holds the segment's audio, and the paths are distinct.
EverySegmentHasFile ==
  (pc = "merge" /\ provider \in PerSegment) =>
    /\ \A k \in 1..Len(segments) :
         /\ segments[k].audio_file # None
         /\ segments[k].audio_file[1] \in DOMAIN fs
         /\ segments[k].audio_file[1][1] = temp_dir[1]
         /\ Some(fs[segments[k].audio_file[1]]) = segments[k].audio
    /\ \A k, n \in 1..Len(segments) :
         k # n => segments[k].audio_file # segments[n].audio_file

\* C10: when the generation of a segment fails, convert_to_speech raises
\* that generation failure; the conversion never goes on with a segment
\* whose generation failed.
NoFailureSwallowed ==
  gen_failed =>
    /\ pc \in {"raising", "raised"}
    /\ err.stage = "generation"

\* C11: _split_audio_on_silence of a segment with use_emote and an emote
\* parameter gives all pieces of the silence split but the last, in order,
\* when the split has more than one piece, and the loaded clip when it has
\* one or none; a segment without use_emote or without emote keeps the loaded
\* clip; in every case the clip is stored on the segment.
TrimDropsTail ==
  pc = "normalize" =>
    \A k \in 1..Len(segments) :
      LET s == segments[k]
          loaded == fs[s.audio_file[1]]
          pieces == SplitOnSilence(loaded, min_silence_len(s.voice_config),
                                   silence_threshold, keep_silence(s.voice_config))
          kept == IF /\ s.voice_config.use_emote
                     /\ s.parameters.emote # None
                     /\ Len(pieces) > 1
                    THEN Concat(SubSeq(pieces, 1, Len(pieces) - 1))
                    ELSE loaded
      IN  /\ s.audio_segment = Some(kept)
          /\ audio_segments[k].clip = kept

\* witness of C11: a trimmed segment whose two-piece clip lost its tail next
\* to a segment with an emote and use_emote false that kept both pieces
TrimDropsTailWitness ==
  /\ pc = "normalize"
  /\ Len(segments) = 2
  /\ Trims(segments[1])
  /\ Len(fs[segments[1].audio_file[1]]) = 2
  /\ Len(audio_segments[1].clip) = 1
  /\ audio_segments[1].clip[1].part = 1
  /\ ~segments[2].voice_config.use_emote
  /\ segments[2].parameters.emote # None
  /\ audio_segments[2].clip = fs[segments[2].audio_file[1]]
  /\ Len(audio_segments[2].clip) = 2

\* C12: the split of an emote segment uses -40 dB, emote_pause in
\* milliseconds as min_silence_len, 2000 ms when emote_pause is None or
\* zero, and emote_merge_pause as keep_silence, 500 ms when that is None or
\* zero; the trimming fails in none of these cases.
TrimParameters ==
  /\ pc = "raising" => err.kind # "TypeError"
  /\ pc = "normalize" =>
       \A k \in 1..Len(segments) :
         Trims(segments[k]) =>
           LET cfg == segments[k].voice_config
               loaded == fs[segments[k].audio_file[1]]
               pause == IF cfg.emote_pause = None \/ cfg.emote_pause[1] = 0
                          THEN 2000 ELSE cfg.emote_pause[1] * 100
               keep == IF cfg.emote_merge_pause = None \/ cfg.emote_merge_pause[1] = 0
                         THEN 500 ELSE cfg.emote_merge_pause[1]
               pieces == SplitOnSilence(loaded, pause, 0 - 40, keep)
           IN  audio_segments[k].clip =
                 IF Len(pieces) > 1 THEN Concat(SubSeq(pieces, 1, Len(pieces) - 1))
                                    ELSE loaded

\* C13: _normalize_audio_segments of a non-empty list of clips of positive
\* RMS does not fail and gives every clip the gain target / clip_rms, the
\* target being the mean of the RMS values: every adjusted clip has the mean
\* as its RMS, a single clip is unchanged, order, count and durations are
\* kept.
NormalizedToMean ==
  /\ (pc = "raising" /\ err.kind = "ZeroDivisionError") =>
       \/ Len(audio_segments) = 0
       \/ \E k \in 1..Len(audio_segments) : Rms(audio_segments[k].clip)[1] = 0
  /\ pc = "combine" =>
       LET n == Len(audio_segments)
       IN  /\ Len(normalized_segments) = n
           /\ \A k \in 1..n :
                LET before == audio_segments[k].clip
                    after == normalized_segments[k]
                IN  /\ Len(after) = Len(before)
                    /\ \A j \in 1..Len(after) :
                         /\ after[j].seg = k /\ before[j].seg = k
                         /\ after[j].part = before[j].part
                         /\ after[j].lead = before[j].lead
                         /\ after[j].dur = before[j].dur
                         /\ after[j].trail = before[j].trail
                         /\ after[j].amp = Rms(after)
                    /\ Rms(after)[1] * n = Rms(after)[2] * SumRms(audio_segments)
           /\ n = 1 => normalized_segments[1] = audio_segments[1].clip

\* witness of C13: two clips of RMS 100 and 300 both normalized to 200
NormalizedToMeanWitness ==
  /\ pc = "combine"
  /\ Len(audio_segments) = 2
  /\ Rms(audio_segments[1].clip) = <<100, 1>>
  /\ Rms(audio_segments[2].clip) = <<300, 1>>
  /\ Rms(normalized_segments[1]) = <<200, 1>>
  /\ Rms(normalized_segments[2]) = <<200, 1>>

\* a tag that is neither a person tag nor one the provider supports
Foreign(t) == IsTag(t) /\ ~IsPersonTag(t) /\ t.name \notin get_supported_tags(provider)

\* the text has an opening person tag
HasTurn(toks) == \E k \in 1..Len(toks) : toks[k].kind = "open" /\ IsPersonTag(toks[k])

\* <foo>a</foo> and <person1>a</person1>
FooElement == <<Open("foo", 0, <<>>), Chr("a"), Close("foo", 0)>>

PlainTurn == <<Open("person", 1, <<>>), Chr("a"), Close("person", 1)>>

\* C14: the cleaned text and the text of every segment hold no opening or
\* closing tag that is neither supported nor a person tag; the unsupported
\* element <foo>a</foo> before or after the turn <person1>a</person1> parses
\* to exactly one segment, of speaker 1 with the text "a"; a text without a
\* person turn gives no segment.
UnsupportedStripped ==
  LET cleaned == clean_tss_markup(text, get_supported_tags(provider))
  IN  /\ \A k \in 1..Len(cleaned) : ~Foreign(cleaned[k])
      /\ pc = "parsed" =>
           /\ \A k \in 1..Len(segments) :
                \A j \in 1..Len(segments[k].text) : ~Foreign(segments[k].text[j])
           /\ text \in {FooElement \o PlainTurn, PlainTurn \o FooElement} =>
                /\ Len(segments) = 1
                /\ segments[1].speaker_id = 1
                /\ segments[1].text = <<Chr("a")>>
           /\ ~HasTurn(text) => segments = <<>>

\* the positions of the opening person tags of a text
PersonOpens(toks) ==
  {k \in 1..Len(toks) : toks[k].kind = "open" /\ IsPersonTag(toks[k])}

\* the opening person tag at k is well-formed: the next person tag after it
\* is its closing tag
WellFormedAt(toks, k) ==
  LET later == {j \in (k + 1)..Len(toks) : IsPersonTag(toks[j])}
  IN  later # {} /\ toks[MinOf(later)] = Close("person", toks[k].num)

\* the place among the opening person tags of the one at k
TurnNumber(toks, k) == Cardinality({j \in PersonOpens(toks) : j <= k})

RECURSIVE SpeakerIdsOf(_)
\* the numbers of the opening person tags, in document order
SpeakerIdsOf(toks) ==
  IF toks = <<>> THEN <<>>
  ELSE (IF toks[1].kind = "open" /\ IsPersonTag(toks[1]) THEN <<toks[1].num>> ELSE <<>>)
       \o SpeakerIdsOf(Tail(toks))

\* C15: split_qa of a text whose person tags are all well-formed turns
\* returns one segment per turn, in document order, with the number of the
\* tag as the speaker id: no turn is merged, dropped or duplicated.
OneSegmentPerTurn ==
  (pc # "split_qa" /\ \A k \in PersonOpens(text) : WellFormedAt(text, k)) =>
    /\ pc = "parsed"
    /\ [k \in 1..Len(segments) |-> segments[k].speaker_id] = SpeakerIdsOf(text)

\* the text is one well-formed turn and nothing else
SingleTurn(toks) ==
  /\ Len(toks) >= 2
  /\ {k \in 1..Len(toks) : IsPersonTag(toks[k])} = {1, Len(toks)}
  /\ toks[1].kind = "open"
  /\ toks[Len(toks)] = Close("person", toks[1].num)

\* the body of a single turn without its unsupported tags, trimmed
WholeBody(toks) ==
  Strip(SelectSeq(SubSeq(toks, 2, Len(toks) - 1), LAMBDA t : ~Foreign(t)))

\* C16: a well-formed turn whose body holds a tag the provider supports is
\* parsed into one segment whose text is the whole body, trimmed, the
\* supported tag and the text after it included.
SupportedTagKept ==
  (/\ pc = "parsed"
   /\ SingleTurn(text)
   /\ \E j \in 2..(Len(text) - 1) : IsTag(text[j]) /\ ~Foreign(text[j])) =>
    /\ Len(segments) = 1
    /\ segments[1].speaker_id = text[1].num
    /\ segments[1].text = WholeBody(text)

\* the text after the opening tag at k up to the next supported or person
\* tag or to the end, without unsupported tags, trimmed
RunAfter(toks, k) ==
  LET stops == {j \in (k + 1)..Len(toks) : IsTag(toks[j]) /\ ~Foreign(toks[j])}
      last == IF stops = {} THEN Len(toks) ELSE MinOf(stops) - 1
  IN  Strip(SelectSeq(SubSeq(toks, k + 1, last), LAMBDA t : ~Foreign(t)))

\* C17: an opening person tag without its closing tag gives a segment: the
\* speaker id is the number of the tag, the text runs from the tag to the
\* next tag or to the end of the input, the attributes of the tag are the
\* parameter map; parsing a text with such a tag does not raise.
UnclosedTurnParsed ==
  \A k \in PersonOpens(text) :
    (pc # "split_qa" /\ ~WellFormedAt(text, k)) =>
      /\ pc = "parsed"
      /\ Len(segments) >= TurnNumber(text, k)
      /\ LET s == segments[TurnNumber(text, k)]
         IN  /\ s.speaker_id = text[k].num
             /\ DOMAIN s.parameters = {text[k].attrs[j][1] : j \in DOMAIN text[k].attrs}
             /\ \A j \in DOMAIN text[k].attrs :
                  s.parameters[text[k].attrs[j][1]] = text[k].attrs[j][2]
             /\ s.text = RunAfter(text, k)

\* the config a speaker id has before a tag overrides it
DefaultOf(sp) ==
  IF sp \in DOMAIN DefaultSpeakerConfigs THEN DefaultSpeakerConfigs[sp]
                                         ELSE DefaultSpeakerConfig

\* C18: every turn gets a segment whose voice config is the default config
\* of its speaker id with the fields overridden that are attribute keys of
\* the tag; an attribute key that is no SpeakerConfig field is in the
\* parameter map only; the default configs are as they were.
ConfigOverride ==
  pc # "split_qa" =>
    /\ speaker_configs = DefaultSpeakerConfigs
    /\ \A k \in PersonOpens(text) :
         /\ Len(segments) >= TurnNumber(text, k)
         /\ LET s == segments[TurnNumber(text, k)]
                attrs == text[k].attrs
                default == DefaultOf(text[k].num)
            IN  /\ DOMAIN s.voice_config = DOMAIN default
                /\ \A f \in DOMAIN default :
                     s.voice_config[f] =
                       IF \E j \in DOMAIN attrs : attrs[j][1] = f
                         THEN attrs[CHOOSE j \in DOMAIN attrs : attrs[j][1] = f][2]
                         ELSE default[f]
                /\ \A j \in DOMAIN attrs :
                     /\ attrs[j][1] \in DOMAIN s.parameters
                     /\ s.parameters[attrs[j][1]] = attrs[j][2]

\* the texts of ParseSpec without an opening person tag
NoTurnMarkups == {m \in Markups : ~HasTurn(m)}

\* C19: a text without a person turn parses to the empty segment list
\* without raising; the conversion of such a text with a per-segment
\* provider never calls the vendor, fails in the merge for want of a clip,
\* at no time has an output audio or transcript file, and has removed its
\* temporary directory when it has exited.
EmptyTranscriptFails ==
  (text = <<>> /\ provider \in PerSegment) =>
    /\ segments = <<>>
    /\ (pc = "generate" /\ i = 1) =>
         \A m \in NoTurnMarkups :
           /\ ~SplitRaisesTypeError(m, speaker_configs, get_supported_tags(provider))
           /\ split_qa_markup(m, speaker_configs, get_supported_tags(provider)) = segments
    /\ ~gen_called
    /\ pc \notin {"combine", "export", "to_tag", "write_transcript", "return", "returned"}
    /\ pc \in {"raising", "raised"} =>
         err = [stage |-> "merge", kind |-> "ZeroDivisionError", cause |-> "none"]
    /\ OutputFile \notin DOMAIN fs
    /\ TranscriptFile \notin DOMAIN fs
    /\ new_transcript = None
    /\ Exited => temp_dir[1] \notin dirs

\* witness of C19: the conversion of a text without turns, asked to save its
\* output, has raised out of the merge
EmptyTranscriptFailsWitness ==
  /\ text = <<>>
  /\ provider \in PerSegment
  /\ save_to_file
  /\ pc = "raised"
  /\ err.stage = "merge"
  /\ ~gen_called
  /\ fs = <<>>

\* the parameter map without the attributes to_tag derives from the timing
Underived(d) == [key \in DOMAIN d \ {"length", "start", "end"} |-> d[key]]

\* every tag inside the texts of the segments is one the provider supports
TextsSupported ==
  \A k \in 1..Len(segments) :
    \A j \in 1..Len(segments[k].text) :
      IsTag(segments[k].text[j]) => ~Foreign(segments[k].text[j])

\* C20: the segments written with to_tag, joined with newlines and parsed
\* again are as many as before and have, in the same order, the same speaker
\* ids, the same texts and, length, start and end aside, the same parameter
\* maps; the parsing does not raise.
RoundTrip ==
  (pc \in {"parsed", "raising"} /\ new_transcript # None /\ TextsSupported) =>
    /\ pc = "parsed"
    /\ Len(reparsed) = Len(segments)
    /\ \A k \in 1..Len(reparsed) :
         /\ reparsed[k].speaker_id = segments[k].speaker_id
         /\ reparsed[k].text = segments[k].text
         /\ Underived(reparsed[k].parameters) = segments[k].parameters

\* the provider needs a credential and neither the settings nor the
\* environment have one
CredentialAbsent ==
  /\ provider \in {"elevenlabs", "openai", "azureopenai", "gemini", "geminimulti"}
  /\ ~tts_config.api_key
  /\ ~tts_config.env_key

\* the settings the construction must fail with
BadConstruction ==
  \/ provider \notin Providers
  \/ CredentialAbsent
  \/ provider = "azureopenai" /\ (~tts_config.api_base \/ ~tts_config.deployment)
  \/ provider = "openai"
       /\ \/ tts_config.audio_format \notin {"mp3", "opus", "aac", "flac", "wav", "pcm"}
          \/ tts_config.speed < 5
          \/ tts_config.speed > 20

InCall == pc \in {"generate", "el_generate", "el_history", "raising"}

\* the request ids of the recorded (request id, text) pairs
IdsOf(recorded) == [k \in 1..Len(recorded) |-> recorded[k][1]]

\* the request ids of a list never decrease from one entry to the next
InOrder(ids) == \A k \in 1..(Len(ids) - 1) : ids[k] <= ids[k + 1]

PhraseOf(s) ==
  LET language == Lower(s.voice_config.language)
      said_str == SAID_TRANSLATIONS[IF language \in DOMAIN SAID_TRANSLATIONS
                                      THEN language ELSE "en"]
  IN  {said_str[n] : n \in 1..3}

\* all pieces of all narration phrases
AllPhrases == UNION {{SAID_TRANSLATIONS[l][n] : n \in 1..3} : l \in DOMAIN SAID_TRANSLATIONS}

\* a context made of the text of the neighbour and of pieces of the narration
\* phrase of segment s, at least one of them, and of no other phrase
Narrated(context, neighbour, s) ==
  /\ \E k \in 1..Len(context) : context[k] = neighbour.text
  /\ \E k \in 1..Len(context) : context[k] \in PhraseOf(s)
  /\ \A k \in 1..Len(context) : context[k] \in AllPhrases => context[k] \in PhraseOf(s)

Matched == Len(previous_request_ids) # prev_len

\* during the history loop of a segment: the generation has not failed, the
\* segment has its audio, at most three lookups were made, each of them
\* either raised rep or recorded the one match, and without a match the list
\* of the recorded ids is as it was
HistoryLoopBounded ==
  /\ pc = "el_history" =>
       /\ err = NoError
       /\ segments[i].audio # None
       /\ n_get_all <= 3
       /\ n_get_all = rep + (IF Matched THEN 1 ELSE 0)
       /\ Len(previous_request_ids) \in {prev_len, prev_len + 1}
  /\ pc \in {"generate", "el_generate", "el_history"} =>
       \A k \in 1..(i - 1) : k <= Len(segments) => segments[k].audio # None

\* a step of the history loop: no lookup follows a match, and no lookup
\* changes what was recorded before or the audio of a segment
HistoryLoopStep ==
  pc = "el_history" =>
    /\ Matched => n_get_all' \in {n_get_all, 0}
    /\ pc' = "el_history" =>
         /\ SubSeq(previous_request_ids', 1, Len(previous_request_ids)) = previous_request_ids
         /\ segments' = segments
    /\ pc' \in {"el_history", "generate"}
    /\ err' = err

OwnRequestRecorded ==
  InCall =>
    /\ (pc = "el_history" /\ Matched) =>
         previous_request_ids[Len(previous_request_ids)][1] =
           history[Len(history)].request_id
    /\ \A k, n \in 1..Len(previous_request_ids) :
         k # n => previous_request_ids[k][1] # previous_request_ids[n][1]

\* the fields of a segment that a generation may not change
Identity(s) ==
  [speaker_id |-> s.speaker_id, text |-> s.text, parameters |-> s.parameters,
   voice_config |-> s.voice_config]

CueAdded(s) == provider = "elevenlabs" /\ HasCue(s)

\* C29: a segment that _split_audio_on_silence trims is one to whose request
\* text the adapter added the emote cue; the clip of a segment generated
\* without the cue is stored as it was loaded
TrimOnlyAfterCue ==
  (pc = "normalize" /\ audio_file = None) =>
    \A k \in 1..Len(segments) :
      /\ Trims(segments[k]) => CueAdded(segments[k])
      /\ ~CueAdded(segments[k]) =>
           segments[k].audio_segment = Some(fs[segments[k].audio_file[1]])

\* a whole turn: <PersonN>, text without person tags, </PersonN> of the
\* same N
WholeTurn(toks) ==
  /\ Len(toks) >= 2
  /\ IsOpen12(toks[1])
  /\ IsClose12(toks[Len(toks)])
  /\ toks[1].num = toks[Len(toks)].num
  /\ \A k \in 2..(Len(toks) - 1) : toks[k].kind \in {"run", "blank"}

RECURSIVE TurnsOfChunk(_)
\* a chunk cut after each of its closing tags
TurnsOfChunk(toks) ==
  LET closes == {k \in 1..Len(toks) : toks[k].kind = "close"}
  IN  IF toks = <<>> THEN <<>>
      ELSE IF closes = {} THEN <<toks>>
      ELSE LET b == CHOOSE k \in closes : \A j \in closes : k <= j
           IN  <<SubSeq(toks, 1, b)>> \o TurnsOfChunk(SubSeq(toks, b + 1, Len(toks)))

RECURSIVE TurnsOfText(_)
\* the tagged turns of a text, in order, their text stripped: an opening tag
\* of speaker 1 or 2 that is followed, before any other tag, by the closing
\* tag of the same speaker
TurnsOfText(toks) ==
  LET opens == {k \in 1..Len(toks) : IsOpen12(toks[k])}
  IN  IF opens = {} THEN <<>>
      ELSE LET a == CHOOSE k \in opens : \A j \in opens : k <= j
               tags == {k \in (a + 1)..Len(toks) : toks[k].kind \in {"open", "close"}}
               b == IF tags = {} THEN 0 ELSE CHOOSE k \in tags : \A j \in tags : k <= j
           IN  IF b > 0 /\ toks[b] = PersonClose(toks[a].num)
                 THEN <<<<toks[a]>> \o StripBlanks(SubSeq(toks, a + 1, b - 1)) \o <<toks[b]>>>>
                      \o TurnsOfText(SubSeq(toks, b + 1, Len(toks)))
                 ELSE TurnsOfText(SubSeq(toks, a + 1, Len(toks)))

\* every chunk is one or more whole turns
ChunksOfWholeTurns ==
  pc = "chunked" =>
    \A k \in 1..Len(text_chunks) :
      /\ text_chunks[k] # <<>>
      /\ \A n \in 1..Len(TurnsOfChunk(text_chunks[k])) :
           WholeTurn(TurnsOfChunk(text_chunks[k])[n])

\* the chunks in a row are the tagged turns of the text in a row
ChunksKeepTurns ==
  pc = "chunked" => Concat(text_chunks) = Concat(TurnsOfText(text))

\* no chunk is larger than max_bytes
ChunksWithinLimit ==
  pc = "chunked" => \A k \in 1..Len(text_chunks) : Utf8Len(text_chunks[k]) <= max_bytes

\* C26: the chunks that chunk_text returns are each one or more whole
\* <PersonN>...</PersonN> turns, together they are the tagged turns of the
\* text, each once and in the order of the text, and none is larger than
\* max_bytes in UTF-8
ChunksWholeAndBounded == ChunksOfWholeTurns /\ ChunksKeepTurns /\ ChunksWithinLimit

\* the texts that are whole turns of speakers 1 and 2 and blanks between
\* them
WellFormedText == Concat(TurnsOfText(text)) = Concat(Sections(text)) /\
                  \A k \in 1..Len(Sections(text)) : WholeTurn(Sections(text)[k])

\* chunk_text of well-formed texts: whole turns, all of them, in order
ChunksOfWellFormed ==
  WellFormedText => ChunksOfWholeTurns /\ ChunksKeepTurns

\* the words of the chunks, chunk after chunk
WordsOfChunks == Concat([k \in 1..Len(text_chunks) |-> SplitWords(text_chunks[k])])

\* C27: split_turn_text returns the text alone when it is at most max_chars
\* long; else every chunk it returns has at least one and at most max_chars
\* characters, and the words of the chunks, in order, are the words of the
\* text
TurnChunksBounded ==
  pc = "split_done" =>
    IF Len(text) <= max_chars THEN text_chunks = <<text>>
    ELSE /\ \A k \in 1..Len(text_chunks) :
              text_chunks[k] # <<>> /\ Len(text_chunks[k]) <= max_chars
         /\ WordsOfChunks = SplitWords(text)

====
